---- MODULE Spec2Model ----
(***************************************************************************)
(* Model of the cryptocurrency price API (api/app.js): the in-memory       *)
(* cache, the per-client sliding-window rate limiter and the request       *)
(* handlers that sit in front of the upstream price provider; and of the   *)
(* store of the price ticker that runs in the page                         *)
(* (wordpress-plugin/crypto-ticker/assets/js/interactivity.js).            *)
(* Time is counted in milliseconds, as Date.now() does.                    *)
(***************************************************************************)
EXTENDS Integers, Sequences, FiniteSets, TLC

VARIABLES now, rateLimiter, cache, reqs, history, writes, out, started,
          state, cryptoTicker, intervals, fetching, updating

\* the state of the ticker store and of the page it runs in
tickerVars == <<state, cryptoTicker, intervals, fetching, updating>>

\* the state of the price API
apiVars == <<rateLimiter, cache, reqs, history, writes>>

vars == <<now, rateLimiter, cache, reqs, history, writes, out, started,
          state, cryptoTicker, intervals, fetching, updating>>

\* now          Date.now(), in milliseconds
\* rateLimiter  the Map ip -> array of the instants of the admitted requests
\* cache        the Map id -> {data, timestamp}
\* reqs         the requests in flight, each suspended at its await
\* history      per client, the log of every checkRateLimit decision
\* writes       per identifier, the log of every setCachedData
\* out          what the last step emitted (a response, an outbound call)
\* started      the number of requests received so far; in the page, the
\*              number of fetchCoinPrice calls made so far
\*
\* state         the state of the ticker store:
\*                 prices          per coin, the data of its last good fetch
\*                 loading         per coin, is a fetch of it under way
\*                 errors          per coin, the message of its last failure
\*                 lastUpdated     the time of the last update, << >>
\*                                 standing for 'Never'
\*                 updateInterval  the identifier of the interval, if any
\* cryptoTicker  is window.cryptoTicker there, with nonce and ajax_url
\* intervals     the intervals of the page that are active
\* fetching      the fetchCoinPrice calls in flight
\* updating      the updatePrices calls in flight

----------------------------------------------------------------------------
(* Program constants (api/app.js lines 9, 13, 14).                         *)

CACHE_DURATION == 5 * 60 * 1000

RATE_LIMIT_WINDOW == 60 * 1000

MAX_REQUESTS_PER_MINUTE == 50

\* the timeout of the price call and of the metadata calls
AXIOS_TIMEOUT == 10000

\* the timeout of the combined price call of GET /prices
BULK_PRICE_TIMEOUT == 15000

----------------------------------------------------------------------------
(* Bounds of the model and the sets the inputs are drawn from.             *)

\* number of bursts of checkRateLimit calls explored by SpecRL
MaxCalls == 3

\* longest log of calls kept for one client
MaxLog == 53

\* requests received by the service in Spec
MaxRequests == 3

\* requests (a burst counting as one) received by the service in SpecGate
MaxGateRequests == 4

\* requests received by the service in SpecBulk
MaxBulkRequests == 2

\* requests in flight at once in SpecBulk
MaxBulkInflight == 1

\* requests received in the runs of SpecLive
MaxLiveRequests == 2

\* requests in flight at once in the other specifications
MaxInflight == 2

\* client keys (req.ip)
Clients == {"ip1", "ip2"}

\* readings of Date.now() the limiter specification explores
InstantsRL == {0, 59999, 60000, 61000}

\* readings of Date.now() the service specification explores
Instants == {0, 200, 300199, 300200, 300400}

\* readings of Date.now() SpecGate explores
GateInstants == {0, 300}

\* readings of Date.now() SpecBulk explores
BulkInstants == {0, 300, 300299}

\* the identifier list of the bulk requests SpecBulk explores (the list
\* after split(',') and trim())
BulkLists == {<<"bitcoin", "ethereum">>}

\* positions in the identifier list of a bulk request of SpecBulk
ListPositions == UNION {DOMAIN l : l \in BulkLists}

\* readings of Date.now() SpecErr explores
ErrInstants == {0, 200}

\* readings of Date.now() in the runs of SpecStale: an entry written at 300
\* is stale at 300300
StaleInstants == {0, 300, 300300}

\* readings of Date.now() in the runs of SpecHealth: an entry written at 200
\* is stale at 300200
HealthInstants == {0, 200, 300200, 300400}

\* 200 bodies of the price call that are not JSON
Texts == {"invalid json"}

\* usd values the provider quotes in SpecGate and SpecBulk
GatePrices == {1}

\* identifiers the provider knows
Ids == {"bitcoin", "ethereum"}

\* usd values the provider quotes
Prices == {1, 2}

\* the methods of the requests SpecCors explores
Methods == {"GET", "OPTIONS"}

\* their bodies: none, a JSON text, a text that is not JSON
Bodies == {"none", "json", "malformed"}

\* the usd values of a provider that may also quote zero
ErrPrices == {0} \cup Prices

\* the requests Spec explores: one client, one identifier, fetched singly
\* or in bulk (the list after split(',') and trim())
SpecClients == {"ip1"}

SpecIds == {"bitcoin"}

SpecBulkLists == {<<"bitcoin">>}

\* positions in the identifier list of a bulk request
BulkPositions == UNION {DOMAIN l : l \in SpecBulkLists}

\* sizes of the bursts of requests answered from the cache in Spec
SpecBursts == {MAX_REQUESTS_PER_MINUTE - 2, MAX_REQUESTS_PER_MINUTE - 1}

\* numbers of calls a client makes in a row within one millisecond
BurstSizes == {1, MAX_REQUESTS_PER_MINUTE, MAX_REQUESTS_PER_MINUTE + 1}

----------------------------------------------------------------------------
(* Helpers.                                                                *)

NoOut == [kind |-> "none"]

\* mutant: the comparison of the filter inverted
FilterRecent_keepOld(requests, windowStart) ==
    LET keep(time) == time < windowStart
    IN  SelectSeq(requests, keep)

\* mutant: old requests are never removed
FilterRecent_noPrune(requests, windowStart) ==
    requests

\* mutant: a request exactly one window old is kept
FilterRecent_inclusive(requests, windowStart) ==
    LET keep(time) == time >= windowStart
    IN  SelectSeq(requests, keep)

\* Array.prototype.filter(time => time > windowStart)
FilterRecent(requests, windowStart) ==
    LET keep(time) == time > windowStart
    IN  SelectSeq(requests, keep)

----------------------------------------------------------------------------
(* Rate limiter.                                                           *)

\* mutant: off by one in the limit comparison
checkRateLimit_strictGt(rl, ip, t) ==
    LET windowStart == t - RATE_LIMIT_WINDOW
        rl1 == IF ip \in DOMAIN rl THEN rl ELSE (ip :> <<>>) @@ rl
        requests == rl1[ip]
        recentRequests == FilterRecent(requests, windowStart)
    IN  IF Len(recentRequests) > MAX_REQUESTS_PER_MINUTE
        THEN [ok |-> FALSE, rl |-> rl1]
        ELSE [ok |-> TRUE,
              rl |-> [rl1 EXCEPT ![ip] = Append(recentRequests, t)]]

\* mutant: a rejected call records its timestamp too
checkRateLimit_recordOnReject(rl, ip, t) ==
    LET windowStart == t - RATE_LIMIT_WINDOW
        rl1 == IF ip \in DOMAIN rl THEN rl ELSE (ip :> <<>>) @@ rl
        requests == rl1[ip]
        recentRequests == FilterRecent(requests, windowStart)
    IN  [ok |-> Len(recentRequests) < MAX_REQUESTS_PER_MINUTE,
         rl |-> [rl1 EXCEPT ![ip] = Append(recentRequests, t)]]

\* mutant: one window shared by all clients
checkRateLimit_sharedKey(rl, ip, t) ==
    LET windowStart == t - RATE_LIMIT_WINDOW
        key == "ip1"
        rl1 == IF key \in DOMAIN rl THEN rl ELSE (key :> <<>>) @@ rl
        requests == rl1[key]
        recentRequests == FilterRecent(requests, windowStart)
    IN  IF Len(recentRequests) >= MAX_REQUESTS_PER_MINUTE
        THEN [ok |-> FALSE, rl |-> rl1]
        ELSE [ok |-> TRUE,
              rl |-> [rl1 EXCEPT ![key] = Append(recentRequests, t)]]

\* mutant: an admission overwrites the window instead of extending it
checkRateLimit_lostUpdate(rl, ip, t) ==
    LET windowStart == t - RATE_LIMIT_WINDOW
        rl1 == IF ip \in DOMAIN rl THEN rl ELSE (ip :> <<>>) @@ rl
        requests == rl1[ip]
        recentRequests == FilterRecent(requests, windowStart)
    IN  IF Len(recentRequests) >= MAX_REQUESTS_PER_MINUTE
        THEN [ok |-> FALSE, rl |-> rl1]
        ELSE [ok |-> TRUE, rl |-> [rl1 EXCEPT ![ip] = <<t>>]]

\* function checkRateLimit(ip): the decision and the rateLimiter map it leaves
checkRateLimit(rl, ip, t) ==
    LET windowStart == t - RATE_LIMIT_WINDOW
        rl1 == IF ip \in DOMAIN rl THEN rl ELSE (ip :> <<>>) @@ rl
        requests == rl1[ip]
        recentRequests == FilterRecent(requests, windowStart)
    IN  IF Len(recentRequests) >= MAX_REQUESTS_PER_MINUTE
        THEN [ok |-> FALSE, rl |-> rl1]
        ELSE [ok |-> TRUE,
              rl |-> [rl1 EXCEPT ![ip] = Append(recentRequests, t)]]

\* n calls checkRateLimit(ip) in a row at instant t, from the map rl and the
\* log h of the client: the map and the log they leave
RECURSIVE callMany(_, _, _, _, _)
callMany(rl, h, ip, t, n) ==
    IF n = 0
    THEN [rl |-> rl, h |-> h]
    ELSE IF n = 1
    THEN LET r == checkRateLimit(rl, ip, t)
         IN  [rl |-> r.rl, h |-> Append(h, [time |-> t, ok |-> r.ok])]
    ELSE LET first == callMany(rl, h, ip, t, n \div 2)
         IN  IF Len(first.h) > 0 /\ ip \in DOMAIN first.rl
             THEN callMany(first.rl, first.h, ip, t, n - (n \div 2))
             ELSE first

----------------------------------------------------------------------------
(* Cache.                                                                  *)

\* the JavaScript null
Null == [null |-> TRUE]

\* mutant: the comparison of the age inverted
getCachedData_inverted(c, id, t) ==
    IF id \in DOMAIN c /\ t - c[id].timestamp > CACHE_DURATION
    THEN c[id].data
    ELSE Null

\* mutant: an entry of age CACHE_DURATION is still served
getCachedData_inclusive(c, id, t) ==
    IF id \in DOMAIN c /\ t - c[id].timestamp <= CACHE_DURATION
    THEN c[id].data
    ELSE Null

\* function getCachedData(id), on the cache c at instant t
getCachedData(c, id, t) ==
    IF id \in DOMAIN c /\ t - c[id].timestamp < CACHE_DURATION
    THEN c[id].data
    ELSE Null

\* mutant: the entry is stored as the data of the entry
setCachedData_nested(c, id, data, t) ==
    (id :> [data |-> [data |-> data, timestamp |-> t],
            timestamp |-> t]) @@ c

\* mutant: an entry that exists is not overwritten
setCachedData_keepFirst(c, id, data, t) ==
    IF id \in DOMAIN c
    THEN c
    ELSE (id :> [data |-> data, timestamp |-> t]) @@ c

\* mutant: an overwritten entry keeps its old timestamp
setCachedData_keepTimestamp(c, id, data, t) ==
    (id :> [data |-> data,
            timestamp |-> IF id \in DOMAIN c THEN c[id].timestamp ELSE t]) @@ c

\* function setCachedData(id, data), on the cache c at instant t
setCachedData(c, id, data, t) ==
    (id :> [data |-> data, timestamp |-> t]) @@ c

----------------------------------------------------------------------------
(* The upstream provider: what an outbound call can come back with.        *)

\* String.prototype.toUpperCase on the strings that occur
ToUpperCase(str) ==
    CASE str = "btc" -> "BTC"
      [] str = "eth" -> "ETH"
      [] str = "bitcoin" -> "BITCOIN"
      [] str = "ethereum" -> "ETHEREUM"
      [] OTHER -> str

\* the provider's /coins/{id} document
CoinInfo(id) ==
    CASE id = "bitcoin" -> [name |-> "Bitcoin", symbol |-> "btc"]
      [] id = "ethereum" -> [name |-> "Ethereum", symbol |-> "eth"]

\* the errors axios rejects with: a response status (0 when there is no
\* response), the error code and the message
AxiosErrors ==
    { [status |-> 404, code |-> "ERR_BAD_REQUEST",
       message |-> "Request failed with status code 404"],
      [status |-> 429, code |-> "ERR_BAD_REQUEST",
       message |-> "Request failed with status code 429"],
      [status |-> 500, code |-> "ERR_BAD_RESPONSE",
       message |-> "Request failed with status code 500"],
      [status |-> 0, code |-> "ECONNABORTED",
       message |-> "timeout of 10000ms exceeded"],
      [status |-> 0, code |-> "ECONNRESET",
       message |-> "Network error"] }

\* the failure Spec and SpecGate explore: the provider's own rate limit
SpecErrors == {e \in AxiosErrors : e.status = 429}

\* the bodies of /simple/price for the identifiers S: any subset of them,
\* each with a usd value
PriceMaps(S, prices) ==
    UNION { [T -> [usd : prices]] : T \in SUBSET S }

\* a 200 body that is not JSON: axios hands the text over as data, and no
\* identifier is a property of it
TextBody(text) == [text |-> text]

\* outcomes of the price call for the identifiers S: a price map, a body
\* that is not JSON, or an error
PriceOutcomes(S, prices, errors, texts) ==
    { [ok |-> TRUE, data |-> m] : m \in PriceMaps(S, prices) }
        \cup { [ok |-> TRUE, data |-> TextBody(x)] : x \in texts }
        \cup { [ok |-> FALSE, error |-> e] : e \in errors }

\* outcomes of the metadata call for id
InfoOutcomes(id, errors) ==
    { [ok |-> TRUE, data |-> CoinInfo(id)] }
        \cup { [ok |-> FALSE, error |-> e] : e \in errors }

----------------------------------------------------------------------------
(* Error classification.                                                   *)

\* new Error('Cryptocurrency not found'), thrown when the price map lacks id
NotFoundError ==
    [status |-> 0, code |-> "", message |-> "Cryptocurrency not found"]

\* mutant: a 404 of the provider is rethrown as it came
classifyError_no404(error) ==
    IF error.status = 429
    THEN "Rate limit exceeded. Please try again later."
    ELSE IF error.code = "ECONNABORTED" THEN "Request timeout"
    ELSE error.message

\* mutant: an aborted call is rethrown as it came
classifyError_noTimeout(error) ==
    IF error.status = 404 THEN "Cryptocurrency not found"
    ELSE IF error.status = 429
    THEN "Rate limit exceeded. Please try again later."
    ELSE error.message

\* the catch block of getCryptocurrencyData: the message of the error thrown
classifyError(error) ==
    IF error.status = 404 THEN "Cryptocurrency not found"
    ELSE IF error.status = 429
    THEN "Rate limit exceeded. Please try again later."
    ELSE IF error.code = "ECONNABORTED" THEN "Request timeout"
    ELSE error.message

\* the 429 of the local rate limiter
LocalRateLimitResponse ==
    [status |-> 429,
     body |-> [error |-> "Rate limit exceeded",
               message |-> "Too many requests. Please try again later."]]

\* mutant: the fallback response passes the message of the error on
priceErrorResponse_leak(message) ==
    IF message = "Cryptocurrency not found"
    THEN [status |-> 404,
          body |-> [error |-> "Cryptocurrency not found",
                    message |-> "The specified cryptocurrency ID does not exist"]]
    ELSE IF message = "Rate limit exceeded. Please try again later."
    THEN [status |-> 429,
          body |-> [error |-> "Rate limit exceeded",
                    message |-> "API rate limit exceeded. Please try again later."]]
    ELSE IF message = "Request timeout"
    THEN [status |-> 408,
          body |-> [error |-> "Request timeout",
                    message |-> "Request took too long to complete"]]
    ELSE [status |-> 500,
          body |-> [error |-> "Internal server error",
                    message |-> message]]

\* the catch block of GET /price/:id
priceErrorResponse(message) ==
    IF message = "Cryptocurrency not found"
    THEN [status |-> 404,
          body |-> [error |-> "Cryptocurrency not found",
                    message |-> "The specified cryptocurrency ID does not exist"]]
    ELSE IF message = "Rate limit exceeded. Please try again later."
    THEN [status |-> 429,
          body |-> [error |-> "Rate limit exceeded",
                    message |-> "API rate limit exceeded. Please try again later."]]
    ELSE IF message = "Request timeout"
    THEN [status |-> 408,
          body |-> [error |-> "Request timeout",
                    message |-> "Request took too long to complete"]]
    ELSE [status |-> 500,
          body |-> [error |-> "Internal server error",
                    message |-> "Failed to fetch cryptocurrency data"]]

\* the catch block of GET /prices/:ids
bulkErrorResponse ==
    [status |-> 500,
     body |-> [error |-> "Internal server error",
               message |-> "Failed to fetch cryptocurrency data"]]

----------------------------------------------------------------------------
(* Requests in flight.                                                     *)

\* the positions of the requests in flight, in the order they were suspended
Slots == 1..MaxInflight

\* the requests in flight once the one at position s has been answered
Finish(s) == SubSeq(reqs, 1, s - 1) \o SubSeq(reqs, s + 1, Len(reqs))

\* the headers the CORS middleware sets
CorsHeaders ==
    ("Access-Control-Allow-Origin" :> "*")
      @@ ("Access-Control-Allow-Methods" :> "GET, POST, PUT, DELETE, OPTIONS")
      @@ ("Access-Control-Allow-Headers"
            :> "Origin, X-Requested-With, Content-Type, Accept, Authorization")

\* a response on which no header of the service has been set
NoHeaders == << >>

\* express.json(): a request without a body, or with a JSON body, is passed
\* on; a body that is not JSON is an error handed to next(err)
jsonMiddleware(body) == [ok |-> body # "malformed"]

\* the CORS middleware: it sets the headers on the response, then answers
\* an OPTIONS request itself and passes any other on
corsMiddleware(method) ==
    [headers |-> CorsHeaders, ended |-> method = "OPTIONS"]

\* the error-handling middleware
errorMiddleware ==
    [status |-> 500,
     body |-> [error |-> "Internal server error",
               message |-> "An unexpected error occurred"]]

\* the response a request sends with res.json / res.status(..).json: a GET
\* request without a body, which both middlewares passed on
Response(route, ip, target, startedAt, seen, r, priceCalls, infoCalls) ==
    [kind |-> "resp", route |-> route, ip |-> ip, target |-> target,
     startedAt |-> startedAt, seen |-> seen,
     status |-> r.status, body |-> r.body,
     headers |-> corsMiddleware("GET").headers,
     priceCalls |-> priceCalls, infoCalls |-> infoCalls]

\* an outbound call a request issues
Call(api, route, ip, target) ==
    [kind |-> "call", api |-> api, route |-> route, ip |-> ip,
     target |-> target]

\* the outbound call the request at position s issues
CallOf(api, s) == Call(api, reqs[s].route, reqs[s].ip, reqs[s].target)

\* the response of the request at position s
ResponseOf(s, r) ==
    Response(reqs[s].route, reqs[s].ip, reqs[s].target,
             reqs[s].startedAt, reqs[s].seen, r,
             reqs[s].priceCalls, reqs[s].infoCalls)

\* what the outbound call api came back with, and the body of the price
\* call the request holds (Null before it has one)
Outcome(api, o, priceData) ==
    [api |-> api, outcome |-> o, priceData |-> priceData]

\* the response resp, with the upstream outcome that brought it about
Caused(resp, cause) == ("cause" :> cause) @@ resp

\* the log entry of a setCachedData
WriteEntry(route, data) == [route |-> route, data |-> data, time |-> now]

Init ==
    /\ now = 0
    /\ rateLimiter = << >>
    /\ cache = << >>
    /\ reqs = << >>
    /\ history = [k \in Clients |-> << >>]
    /\ writes = [i \in Ids |-> << >>]
    /\ out = NoOut
    /\ started = 0
    /\ state = [prices |-> << >>, loading |-> << >>, errors |-> << >>,
                lastUpdated |-> << >>, updateInterval |-> << >>]
    /\ cryptoTicker = FALSE
    /\ intervals = << >>
    /\ fetching = << >>
    /\ updating = << >>

----------------------------------------------------------------------------
(* GET /price/:id                                                          *)

\* mutant: the cache is consulted before the rate limiter
priceHandlerStart_cacheFirst(rl, c, ip, id, t) ==
    IF getCachedData(c, id, t) # Null
    THEN [rl |-> rl, admitted |-> TRUE, cachedData |-> getCachedData(c, id, t)]
    ELSE LET lim == checkRateLimit(rl, ip, t)
         IN  [rl |-> lim.rl, admitted |-> lim.ok, cachedData |-> Null]

\* the handler up to its first await: the rate-limit check, then the cache
\* lookup of an admitted request
priceHandlerStart(rl, c, ip, id, t) ==
    LET lim == checkRateLimit(rl, ip, t)
    IN  IF ~lim.ok
        THEN [rl |-> lim.rl, admitted |-> FALSE, cachedData |-> Null]
        ELSE [rl |-> lim.rl, admitted |-> TRUE,
              cachedData |-> getCachedData(c, id, t)]

\* mutant: a request that arrives while another is in flight waits for it
StartPrice_blocking(ip, id, max, inflight) ==
    /\ started < max
    /\ Len(history[ip]) < MaxLog
    /\ IF reqs # << >>
       THEN /\ started' = started + 1
            /\ out' = NoOut
            /\ UNCHANGED <<rateLimiter, history, reqs>>
       ELSE LET r == priceHandlerStart(rateLimiter, cache, ip, id, now)
               IN  /\ rateLimiter' = r.rl
                   /\ history' = [history EXCEPT
                                    ![ip] = Append(@, [time |-> now, ok |-> r.admitted])]
                   /\ started' = started + 1
                   /\ IF ~r.admitted
                      THEN /\ out' = Response("price", ip, id, now, Len(writes[id]),
                                              LocalRateLimitResponse, 0, 0)
                           /\ reqs' = reqs
                      ELSE IF r.cachedData # Null
                      THEN /\ out' = Response("price", ip, id, now, Len(writes[id]),
                                              [status |-> 200, body |-> r.cachedData],
                                              0, 0)
                           /\ reqs' = reqs
                      ELSE /\ Len(reqs) < inflight
                           /\ reqs' = Append(reqs,
                                         [pc |-> "price", route |-> "price",
                                          ip |-> ip, target |-> id,
                                          startedAt |-> now,
                                          seen |-> Len(writes[id]),
                                          priceCalls |-> 1, infoCalls |-> 0,
                                          t0 |-> now])
                           /\ out' = Call("price", "price", ip, id)
    /\ UNCHANGED <<now, cache, writes>>
    /\ UNCHANGED tickerVars

\* a request GET /price/id of client ip arrives: it is rejected, served from
\* the cache, or suspended on the price call of getCryptocurrencyData
StartPrice(ip, id, max, inflight) ==
    /\ started < max
    /\ Len(history[ip]) < MaxLog
    /\ LET r == priceHandlerStart(rateLimiter, cache, ip, id, now)
       IN  /\ rateLimiter' = r.rl
           /\ history' = [history EXCEPT
                            ![ip] = Append(@, [time |-> now, ok |-> r.admitted])]
           /\ started' = started + 1
           /\ IF ~r.admitted
              THEN /\ out' = Response("price", ip, id, now, Len(writes[id]),
                                      LocalRateLimitResponse, 0, 0)
                   /\ reqs' = reqs
              ELSE IF r.cachedData # Null
              THEN /\ out' = Response("price", ip, id, now, Len(writes[id]),
                                      [status |-> 200, body |-> r.cachedData],
                                      0, 0)
                   /\ reqs' = reqs
              ELSE /\ Len(reqs) < inflight
                   /\ reqs' = Append(reqs,
                                 [pc |-> "price", route |-> "price",
                                  ip |-> ip, target |-> id,
                                  startedAt |-> now,
                                  seen |-> Len(writes[id]),
                                  priceCalls |-> 1, infoCalls |-> 0,
                                  t0 |-> now])
                   /\ out' = Call("price", "price", ip, id)
    /\ UNCHANGED <<now, cache, writes>>
    /\ UNCHANGED tickerVars

\* n requests GET /price/id of client ip arrive in a row while id is fresh
\* in the cache: each is decided by checkRateLimit and answered at once
BurstPrice(ip, id, n, max) ==
    /\ started < max
    /\ n > 1
    /\ Len(history[ip]) + n <= MaxLog
    /\ getCachedData(cache, id, now) # Null
    /\ LET r == callMany(rateLimiter, history[ip], ip, now, n)
       IN  /\ rateLimiter' = r.rl
           /\ history' = [history EXCEPT ![ip] = r.h]
           /\ started' = started + 1
           /\ out' = Response("price", ip, id, now, Len(writes[id]),
                              IF r.h[Len(r.h)].ok
                              THEN [status |-> 200,
                                    body |-> getCachedData(cache, id, now)]
                              ELSE LocalRateLimitResponse,
                              0, 0)
    /\ UNCHANGED <<now, cache, reqs, writes>>
    /\ UNCHANGED tickerVars

\* priceResponse.data[id] is there: the negation of the test of line 70
hasPrice(data, id) == id \in DOMAIN data

\* mutant: the symbol is passed on as the provider spells it
buildRecord_rawSymbol(info, priceData, id) ==
    [name |-> info.name,
     symbol |-> info.symbol,
     price |-> priceData[id].usd]

\* the record getCryptocurrencyData returns
buildRecord(info, priceData, id) ==
    [name |-> info.name,
     symbol |-> ToUpperCase(info.symbol),
     price |-> priceData[id].usd]

\* mutant: the catch block drops the entry of the identifier
FailPrice_evict(s, error, cause) ==
    /\ out' = Caused(ResponseOf(s, priceErrorResponse(classifyError(error))),
                     cause)
    /\ reqs' = Finish(s)
    /\ cache' = [id \in DOMAIN cache \ {reqs[s].target} |-> cache[id]]
    /\ UNCHANGED writes

\* mutant: the catch block sends nothing and the request is left hanging
FailPrice_hang(s, error, cause) ==
    /\ out' = NoOut
    /\ reqs' = [reqs EXCEPT ![s] = [@ EXCEPT !.pc = "hung"]]
    /\ UNCHANGED <<cache, writes>>

\* the request at position s fails with the error thrown by getCryptocurrencyData
FailPrice(s, error, cause) ==
    /\ out' = Caused(ResponseOf(s, priceErrorResponse(classifyError(error))),
                     cause)
    /\ reqs' = Finish(s)
    /\ UNCHANGED <<cache, writes>>

\* the price call of getCryptocurrencyData comes back
PriceResponds(s, prices, errors, texts) ==
    /\ s \in DOMAIN reqs
    /\ reqs[s].pc = "price"
    /\ reqs[s].route = "price"
    /\ \E o \in PriceOutcomes({reqs[s].target}, prices, errors, texts) :
          IF ~o.ok
          THEN FailPrice(s, o.error, Outcome("price", o, Null))
          ELSE IF ~hasPrice(o.data, reqs[s].target)
          THEN FailPrice(s, NotFoundError, Outcome("price", o, Null))
          ELSE /\ reqs' = [reqs EXCEPT ![s] =
                             [pc |-> "delay", route |-> "price",
                              ip |-> reqs[s].ip,
                              target |-> reqs[s].target,
                              startedAt |-> reqs[s].startedAt,
                              seen |-> reqs[s].seen,
                              priceCalls |-> reqs[s].priceCalls,
                              infoCalls |-> reqs[s].infoCalls,
                              priceData |-> o.data,
                              t0 |-> now]]
               /\ out' = NoOut
               /\ UNCHANGED <<cache, writes>>
    /\ UNCHANGED <<now, rateLimiter, history, started>>
    /\ UNCHANGED tickerVars

\* mutant: the metadata call goes out without the delay
DelayFires_noWait(s) ==
    /\ s \in DOMAIN reqs
    /\ reqs[s].pc = "delay"
    /\ reqs[s].route = "price"
    /\ reqs' = [reqs EXCEPT ![s] =
                  [pc |-> "info", route |-> "price",
                              ip |-> reqs[s].ip,
                   target |-> reqs[s].target,
                   startedAt |-> reqs[s].startedAt,
                   seen |-> reqs[s].seen,
                   priceCalls |-> reqs[s].priceCalls,
                   infoCalls |-> reqs[s].infoCalls + 1,
                   priceData |-> reqs[s].priceData,
                   t0 |-> now]]
    /\ out' = CallOf("info", s)
    /\ UNCHANGED <<now, rateLimiter, cache, history, writes, started>>
    /\ UNCHANGED tickerVars

\* the 200 ms timer of getCryptocurrencyData fires: the metadata call goes out
DelayFires(s) ==
    /\ s \in DOMAIN reqs
    /\ reqs[s].pc = "delay"
    /\ reqs[s].route = "price"
    /\ now - reqs[s].t0 >= 200
    /\ reqs' = [reqs EXCEPT ![s] =
                  [pc |-> "info", route |-> "price",
                              ip |-> reqs[s].ip,
                   target |-> reqs[s].target,
                   startedAt |-> reqs[s].startedAt,
                   seen |-> reqs[s].seen,
                   priceCalls |-> reqs[s].priceCalls,
                   infoCalls |-> reqs[s].infoCalls + 1,
                   priceData |-> reqs[s].priceData,
                   t0 |-> now]]
    /\ out' = CallOf("info", s)
    /\ UNCHANGED <<now, rateLimiter, cache, history, writes, started>>
    /\ UNCHANGED tickerVars

\* mutant: the record is sent and the cache write is left out
InfoResponds_noWrite(s, errors) ==
    /\ s \in DOMAIN reqs
    /\ reqs[s].pc = "info"
    /\ reqs[s].route = "price"
    /\ \E o \in InfoOutcomes(reqs[s].target, errors) :
          IF ~o.ok
          THEN FailPrice(s, o.error, Outcome("info", o, reqs[s].priceData))
          ELSE LET data == buildRecord(o.data, reqs[s].priceData,
                                       reqs[s].target)
               IN  /\ UNCHANGED <<cache, writes>>
                   /\ out' = Caused(ResponseOf(s, [status |-> 200,
                                                   body |-> data]),
                                    Outcome("info", o, reqs[s].priceData))
                   /\ reqs' = Finish(s)
    /\ UNCHANGED <<now, rateLimiter, history, started>>
    /\ UNCHANGED tickerVars

\* the metadata call comes back: on success the record is built, cached and
\* sent
InfoResponds(s, errors) ==
    /\ s \in DOMAIN reqs
    /\ reqs[s].pc = "info"
    /\ reqs[s].route = "price"
    /\ \E o \in InfoOutcomes(reqs[s].target, errors) :
          IF ~o.ok
          THEN FailPrice(s, o.error, Outcome("info", o, reqs[s].priceData))
          ELSE LET data == buildRecord(o.data, reqs[s].priceData,
                                       reqs[s].target)
               IN  /\ cache' = setCachedData(cache, reqs[s].target, data, now)
                   /\ writes' = [writes EXCEPT ![reqs[s].target] =
                                   Append(@, WriteEntry("price", data))]
                   /\ out' = Caused(ResponseOf(s, [status |-> 200,
                                                   body |-> data]),
                                    Outcome("info", o, reqs[s].priceData))
                   /\ reqs' = Finish(s)
    /\ UNCHANGED <<now, rateLimiter, history, started>>
    /\ UNCHANGED tickerVars

----------------------------------------------------------------------------
(* GET /prices/:ids                                                        *)

\* the identifiers of a list
IdSet(ids) == {ids[i] : i \in 1..Len(ids)}

\* mutant: when an identifier is missing, all of them are fetched
bulkHandlerStart_allIds(rl, c, ip, coinIds, t) ==
    LET lim == checkRateLimit(rl, ip, t)
        isMissing(id) == getCachedData(c, id, t) = Null
        anyMissing == \E i \in 1..Len(coinIds) : isMissing(coinIds[i])
    IN  IF ~lim.ok
        THEN [rl |-> lim.rl, admitted |-> FALSE,
              cachedResults |-> << >>, missingIds |-> << >>]
        ELSE [rl |-> lim.rl, admitted |-> TRUE,
              cachedResults |->
                 [id \in {x \in IdSet(coinIds) : ~isMissing(x)} |->
                     getCachedData(c, id, t)],
              missingIds |-> IF anyMissing THEN coinIds ELSE << >>]

\* mutant: the cache is not consulted
bulkHandlerStart_noCache(rl, c, ip, coinIds, t) ==
    LET lim == checkRateLimit(rl, ip, t)
    IN  IF ~lim.ok
        THEN [rl |-> lim.rl, admitted |-> FALSE,
              cachedResults |-> << >>, missingIds |-> << >>]
        ELSE [rl |-> lim.rl, admitted |-> TRUE,
              cachedResults |-> << >>, missingIds |-> coinIds]

\* mutant: the limiter is called once per identifier of the list
bulkHandlerStart_perId(rl, c, ip, coinIds, t) ==
    LET lim == checkRateLimit(callMany(rl, << >>, ip, t,
                                       Len(coinIds) - 1).rl, ip, t)
        isMissing(id) == getCachedData(c, id, t) = Null
    IN  IF ~lim.ok
        THEN [rl |-> lim.rl, admitted |-> FALSE,
              cachedResults |-> << >>, missingIds |-> << >>]
        ELSE [rl |-> lim.rl, admitted |-> TRUE,
              cachedResults |->
                 [id \in {x \in IdSet(coinIds) : ~isMissing(x)} |->
                     getCachedData(c, id, t)],
              missingIds |-> SelectSeq(coinIds, isMissing)]

\* the handler up to its first await: the rate-limit check, then the
\* partition of the identifiers into cached and missing
bulkHandlerStart(rl, c, ip, coinIds, t) ==
    LET lim == checkRateLimit(rl, ip, t)
        isMissing(id) == getCachedData(c, id, t) = Null
    IN  IF ~lim.ok
        THEN [rl |-> lim.rl, admitted |-> FALSE,
              cachedResults |-> << >>, missingIds |-> << >>]
        ELSE [rl |-> lim.rl, admitted |-> TRUE,
              cachedResults |->
                 [id \in {x \in IdSet(coinIds) : ~isMissing(x)} |->
                     getCachedData(c, id, t)],
              missingIds |-> SelectSeq(coinIds, isMissing)]

\* a request GET /prices/ids of client ip arrives: it is rejected, served
\* from the cache alone, or suspended on the combined price call
StartBulk(ip, coinIds, max, inflight) ==
    /\ started < max
    /\ Len(history[ip]) < MaxLog
    /\ LET r == bulkHandlerStart(rateLimiter, cache, ip, coinIds, now)
       IN  /\ rateLimiter' = r.rl
           /\ history' = [history EXCEPT
                            ![ip] = Append(@, [time |-> now, ok |-> r.admitted])]
           /\ started' = started + 1
           /\ IF ~r.admitted
              THEN /\ out' = Response("prices", ip, coinIds, now, 0,
                                      LocalRateLimitResponse, 0, 0)
                   /\ reqs' = reqs
              ELSE IF Len(r.missingIds) = 0
              THEN /\ out' = Response("prices", ip, coinIds, now, 0,
                                      [status |-> 200, body |-> r.cachedResults],
                                      0, 0)
                   /\ reqs' = reqs
              ELSE /\ Len(reqs) < inflight
                   /\ reqs' = Append(reqs,
                                 [pc |-> "price", route |-> "prices",
                                  ip |-> ip, target |-> coinIds,
                                  startedAt |-> now, seen |-> 0,
                                  priceCalls |-> 1, infoCalls |-> 0,
                                  cachedResults |-> r.cachedResults,
                                  missingIds |-> r.missingIds,
                                  t0 |-> now])
                   /\ out' = ("ids" :> r.missingIds)
                                 @@ Call("price", "prices", ip, coinIds)
    /\ UNCHANGED <<now, cache, writes>>
    /\ UNCHANGED tickerVars

\* the outcome of the combined price call, with the partition the bulk
\* request at position s made when it arrived
BulkOutcome(s, o) ==
    [api |-> "price", outcome |-> o, priceData |-> Null,
     missingIds |-> reqs[s].missingIds,
     cachedResults |-> reqs[s].cachedResults]

\* mutant: when the price call fails, the cached records are sent
BulkPriceResponds_partial(s, prices, errors, texts) ==
    /\ s \in DOMAIN reqs
    /\ reqs[s].pc = "price"
    /\ reqs[s].route = "prices"
    /\ \E o \in PriceOutcomes(IdSet(reqs[s].missingIds), prices, errors,
                            texts) :
          IF ~o.ok
          THEN /\ out' = Caused(ResponseOf(s, [status |-> 200,
                                         body |-> reqs[s].cachedResults]),
                                BulkOutcome(s, o))
               /\ reqs' = Finish(s)
          ELSE /\ reqs' = [reqs EXCEPT ![s] =
                             [pc |-> "delay", route |-> "prices",
                              ip |-> reqs[s].ip,
                              target |-> reqs[s].target,
                              startedAt |-> reqs[s].startedAt,
                              seen |-> reqs[s].seen,
                              priceCalls |-> reqs[s].priceCalls,
                              infoCalls |-> reqs[s].infoCalls,
                              cachedResults |-> reqs[s].cachedResults,
                              missingIds |-> reqs[s].missingIds,
                              priceData |-> o.data,
                              t0 |-> now]]
               /\ out' = NoOut
    /\ UNCHANGED <<now, rateLimiter, cache, history, writes, started>>
    /\ UNCHANGED tickerVars

\* the combined price call of getMultipleCryptocurrencyData comes back; an
\* error is rethrown and ends the request
BulkPriceResponds(s, prices, errors, texts) ==
    /\ s \in DOMAIN reqs
    /\ reqs[s].pc = "price"
    /\ reqs[s].route = "prices"
    /\ \E o \in PriceOutcomes(IdSet(reqs[s].missingIds), prices, errors,
                            texts) :
          IF ~o.ok
          THEN /\ out' = Caused(ResponseOf(s, bulkErrorResponse),
                                BulkOutcome(s, o))
               /\ reqs' = Finish(s)
          ELSE /\ reqs' = [reqs EXCEPT ![s] =
                             [pc |-> "delay", route |-> "prices",
                              ip |-> reqs[s].ip,
                              target |-> reqs[s].target,
                              startedAt |-> reqs[s].startedAt,
                              seen |-> reqs[s].seen,
                              priceCalls |-> reqs[s].priceCalls,
                              infoCalls |-> reqs[s].infoCalls,
                              cachedResults |-> reqs[s].cachedResults,
                              missingIds |-> reqs[s].missingIds,
                              priceData |-> o.data,
                              t0 |-> now]]
               /\ out' = NoOut
    /\ UNCHANGED <<now, rateLimiter, cache, history, writes, started>>
    /\ UNCHANGED tickerVars

\* a metadata call that has not come back yet
Pending == [pending |-> TRUE]

\* the 300 ms timer fires: one metadata call per missing identifier goes out
BulkDelayFires(s) ==
    /\ s \in DOMAIN reqs
    /\ reqs[s].pc = "delay"
    /\ reqs[s].route = "prices"
    /\ now - reqs[s].t0 >= 300
    /\ reqs' = [reqs EXCEPT ![s] =
                  [pc |-> "info", route |-> "prices",
                              ip |-> reqs[s].ip,
                   target |-> reqs[s].target,
                   startedAt |-> reqs[s].startedAt,
                   seen |-> reqs[s].seen,
                   priceCalls |-> reqs[s].priceCalls,
                   infoCalls |-> reqs[s].infoCalls + Len(reqs[s].missingIds),
                   cachedResults |-> reqs[s].cachedResults,
                   missingIds |-> reqs[s].missingIds,
                   priceData |-> reqs[s].priceData,
                   infoResults |-> [i \in 1..Len(reqs[s].missingIds) |-> Pending],
                   infoOutcomes |-> [i \in 1..Len(reqs[s].missingIds) |-> Pending],
                   t0 |-> now]]
    /\ out' = CallOf("info", s)
    /\ UNCHANGED <<now, rateLimiter, cache, history, writes, started>>
    /\ UNCHANGED tickerVars

\* mutant: the fallback symbol is the identifier as it is
infoResult_rawSymbol(id, o) ==
    IF o.ok
    THEN [id |-> id, name |-> o.data.name,
          symbol |-> ToUpperCase(o.data.symbol)]
    ELSE [id |-> id, name |-> id, symbol |-> id]

\* what one metadata promise resolves to: the provider's name and symbol, or
\* the identifier itself when the call failed
infoResult(id, o) ==
    IF o.ok
    THEN [id |-> id, name |-> o.data.name,
          symbol |-> ToUpperCase(o.data.symbol)]
    ELSE [id |-> id, name |-> id, symbol |-> ToUpperCase(id)]

\* mutant: one identifier without a price entry empties the result
combineResults_requireAll(infoResults, priceData) ==
    IF \A i \in 1..Len(infoResults) : infoResults[i].id \in DOMAIN priceData
    THEN [id \in {infoResults[i].id : i \in 1..Len(infoResults)} |->
            LET i == CHOOSE j \in 1..Len(infoResults) : infoResults[j].id = id
            IN  [name |-> infoResults[i].name,
                 symbol |-> infoResults[i].symbol,
                 price |-> priceData[id].usd]]
    ELSE << >>

\* the result object built from the metadata results and the price map: an
\* identifier without a price entry is left out
combineResults(infoResults, priceData) ==
    LET present == {i \in 1..Len(infoResults) :
                       infoResults[i].id \in DOMAIN priceData}
        lastOf(id) == CHOOSE i \in present :
                         /\ infoResults[i].id = id
                         /\ \A j \in present :
                               infoResults[j].id = id => j <= i
    IN  [id \in {infoResults[i].id : i \in present} |->
            [name |-> infoResults[lastOf(id)].name,
             symbol |-> infoResults[lastOf(id)].symbol,
             price |-> priceData[id].usd]]

\* mutant: the fresh results are sent but not cached
cacheFreshResults_skip(c, freshResults, t) == c

\* mutant: a record built with the fallback name is not cached
cacheFreshResults_skipFallback(c, freshResults, t) ==
    LET kept == {id \in DOMAIN freshResults : freshResults[id].name # id}
    IN  [id \in kept \cup DOMAIN c |->
            IF id \in kept
            THEN setCachedData(c, id, freshResults[id], t)[id]
            ELSE c[id]]

\* the loop that caches the fresh results: setCachedData for every entry
cacheFreshResults(c, freshResults, t) ==
    [id \in DOMAIN freshResults \cup DOMAIN c |->
        IF id \in DOMAIN freshResults
        THEN setCachedData(c, id, freshResults[id], t)[id]
        ELSE c[id]]

\* the metadata call of the i-th missing identifier comes back; once all of
\* them have, the fresh records are cached and the merged result is sent
BulkInfoResponds(s, i, errors) ==
    /\ s \in DOMAIN reqs
    /\ reqs[s].pc = "info"
    /\ reqs[s].route = "prices"
    /\ i \in 1..Len(reqs[s].missingIds)
    /\ reqs[s].infoResults[i] = Pending
    /\ \E o \in InfoOutcomes(reqs[s].missingIds[i], errors) :
          LET infoResults == [reqs[s].infoResults EXCEPT
                                ![i] = infoResult(reqs[s].missingIds[i], o)]
              infoOutcomes == [reqs[s].infoOutcomes EXCEPT ![i] = o]
          IN  IF \E j \in 1..Len(infoResults) : infoResults[j] = Pending
              THEN /\ reqs' = [reqs EXCEPT ![s].infoResults = infoResults,
                                           ![s].infoOutcomes = infoOutcomes]
                   /\ out' = NoOut
                   /\ UNCHANGED <<cache, writes>>
              ELSE LET freshResults ==
                           combineResults(infoResults, reqs[s].priceData)
                       allResults == freshResults @@ reqs[s].cachedResults
                   IN  /\ cache' = cacheFreshResults(cache, freshResults, now)
                       /\ writes' = [id \in Ids |->
                                       IF id \in DOMAIN freshResults
                                       THEN Append(writes[id],
                                                   WriteEntry("prices", freshResults[id]))
                                       ELSE writes[id]]
                       /\ out' = Caused(
                             ResponseOf(s, [status |-> 200,
                                            body |-> allResults]),
                             [api |-> "info",
                              outcomes |-> infoOutcomes,
                              priceData |-> reqs[s].priceData,
                              missingIds |-> reqs[s].missingIds,
                              cachedResults |-> reqs[s].cachedResults])
                       /\ reqs' = Finish(s)
    /\ UNCHANGED <<now, rateLimiter, history, started>>
    /\ UNCHANGED tickerVars

----------------------------------------------------------------------------
(* GET /health                                                             *)

\* cache.size: the number of keys of the Map
cacheSize(c) == Cardinality(DOMAIN c)

\* mutant: only the entries that are still fresh are counted
Health_freshOnly ==
    /\ out' = [kind |-> "resp", route |-> "health", status |-> 200,
               headers |-> corsMiddleware("GET").headers,
               body |-> [status |-> "OK", timestamp |-> now,
                         cache_size |->
                            Cardinality({id \in DOMAIN cache :
                                            getCachedData(cache, id, now)
                                               # Null}),
                         uptime |-> now \div 1000]]
    /\ UNCHANGED <<now, rateLimiter, cache, reqs, history, writes, started>>
    /\ UNCHANGED tickerVars

\* a request GET /health arrives: it is answered at once, past the rate
\* limiter, with the size of the cache; the process started at instant 0
Health ==
    /\ out' = [kind |-> "resp", route |-> "health", status |-> 200,
               headers |-> corsMiddleware("GET").headers,
               body |-> [status |-> "OK", timestamp |-> now,
                         cache_size |-> cacheSize(cache),
                         uptime |-> now \div 1000]]
    /\ UNCHANGED <<now, rateLimiter, cache, reqs, history, writes, started>>
    /\ UNCHANGED tickerVars

----------------------------------------------------------------------------
(* GET /                                                                   *)

\* the usage text of the root route
RootBody ==
    [message |-> "Cryptocurrency Price API",
     usage |-> [single |-> "GET /price/{id} - Get cryptocurrency price by ID",
                multiple |-> "GET /prices/{ids} - Get multiple cryptocurrency prices (comma-separated)"],
     examples |-> <<"/price/bitcoin", "/price/ethereum", "/price/cardano",
                    "/prices/bitcoin,ethereum,cardano">>]

\* mutant: the root route is behind the rate limiter
Root_limited(ip) ==
    /\ Len(history[ip]) < MaxLog
    /\ LET lim == checkRateLimit(rateLimiter, ip, now)
       IN  /\ rateLimiter' = lim.rl
           /\ history' = [history EXCEPT
                            ![ip] = Append(@, [time |-> now, ok |-> lim.ok])]
           /\ out' = [kind |-> "resp", route |-> "root", ip |-> ip,
                      status |-> IF lim.ok THEN 200 ELSE 429,
                      headers |-> corsMiddleware("GET").headers,
                      body |-> IF lim.ok THEN RootBody
                               ELSE LocalRateLimitResponse.body]
    /\ UNCHANGED <<now, cache, reqs, writes, started>>
    /\ UNCHANGED tickerVars

\* a request GET / of client ip arrives: it is answered at once with the
\* usage text
Root(ip) ==
    /\ out' = [kind |-> "resp", route |-> "root", ip |-> ip, status |-> 200,
               headers |-> corsMiddleware("GET").headers,
               body |-> RootBody]
    /\ UNCHANGED <<now, rateLimiter, cache, reqs, history, writes, started>>
    /\ UNCHANGED tickerVars

----------------------------------------------------------------------------
(* The middlewares in front of the routes.                                 *)

\* a request with the given method and body arrives for any path and is
\* answered before it reaches a route: express.json() hands a body that is
\* not JSON to the error-handling middleware, past the CORS middleware, and
\* the CORS middleware answers an OPTIONS request with sendStatus(200)
Intercepted(method, body) ==
    /\ \/ ~jsonMiddleware(body).ok
       \/ corsMiddleware(method).ended
    /\ out' = IF ~jsonMiddleware(body).ok
              THEN [kind |-> "resp", route |-> "error", method |-> method,
                    status |-> errorMiddleware.status,
                    body |-> errorMiddleware.body,
                    headers |-> NoHeaders]
              ELSE [kind |-> "resp", route |-> "cors", method |-> method,
                    status |-> 200, body |-> "OK",
                    headers |-> corsMiddleware(method).headers]
    /\ UNCHANGED <<now, rateLimiter, cache, reqs, history, writes, started>>
    /\ UNCHANGED tickerVars

----------------------------------------------------------------------------
(* The service.                                                            *)

\* the timeout option of the axios call the request r waits for
Timeout(r) ==
    IF r.route = "prices" /\ r.pc = "price" THEN BULK_PRICE_TIMEOUT
    ELSE AXIOS_TIMEOUT

\* every outbound call in flight has come back, or has been aborted by its
\* timeout, by the instant t
CallsSettleBy(t) ==
    \A s \in DOMAIN reqs :
        reqs[s].pc \in {"price", "info"} => t <= reqs[s].t0 + Timeout(reqs[s])

\* Date.now() moves on to a later reading
Tick(instants) ==
    /\ \E t \in instants : t > now /\ CallsSettleBy(t) /\ now' = t
    /\ out' = NoOut
    /\ UNCHANGED <<rateLimiter, cache, reqs, history, writes, started>>
    /\ UNCHANGED tickerVars

\* GET /price traffic over the lifetime of a cache entry
Next ==
    \/ \E ip \in SpecClients, id \in SpecIds : StartPrice(ip, id, MaxRequests,
                     MaxInflight)
    \/ \E s \in Slots : PriceResponds(s, Prices, SpecErrors, {})
    \/ \E s \in Slots : DelayFires(s)
    \/ \E s \in Slots : InfoResponds(s, SpecErrors)
    \/ Tick(Instants)

Spec == Init /\ [][Next]_vars

\* both routes under a load that reaches the limit of the rate limiter
NextGate ==
    \/ \E ip \in SpecClients, id \in SpecIds :
          StartPrice(ip, id, MaxGateRequests,
                     MaxInflight)
    \/ \E ip \in SpecClients, id \in SpecIds, n \in SpecBursts :
          BurstPrice(ip, id, n, MaxGateRequests)
    \/ \E s \in Slots : PriceResponds(s, GatePrices, SpecErrors, {})
    \/ \E s \in Slots : DelayFires(s)
    \/ \E s \in Slots : InfoResponds(s, SpecErrors)
    \/ \E ip \in SpecClients, coinIds \in SpecBulkLists :
          StartBulk(ip, coinIds, MaxGateRequests,
                    MaxInflight)
    \/ \E s \in Slots : BulkPriceResponds(s, GatePrices, SpecErrors, {})
    \/ \E s \in Slots : BulkDelayFires(s)
    \/ \E s \in Slots, i \in BulkPositions : BulkInfoResponds(s, i, SpecErrors)
    \/ Tick(GateInstants)

SpecGate == Init /\ [][NextGate]_vars

\* GET /prices traffic for two identifiers, mixed with GET /price traffic
\* for either, while the entries they write are fresh
NextBulk ==
    \/ \E ip \in SpecClients, coinIds \in BulkLists :
          StartBulk(ip, coinIds, MaxBulkRequests,
                    MaxBulkInflight)
    \/ \E s \in Slots : BulkPriceResponds(s, GatePrices, AxiosErrors, {})
    \/ \E s \in Slots : BulkDelayFires(s)
    \/ \E s \in Slots, i \in ListPositions : BulkInfoResponds(s, i, SpecErrors)
    \/ \E ip \in SpecClients, id \in Ids : StartPrice(ip, id, MaxBulkRequests,
                     MaxBulkInflight)
    \/ \E s \in Slots : PriceResponds(s, GatePrices, SpecErrors, {})
    \/ \E s \in Slots : DelayFires(s)
    \/ \E s \in Slots : InfoResponds(s, SpecErrors)
    \/ Tick(BulkInstants)

SpecBulk == Init /\ [][NextBulk]_vars

\* GET /price traffic against a provider that fails in every way axios
\* reports, or answers 200 with a body that is not JSON
NextErr ==
    \/ \E ip \in SpecClients, id \in SpecIds : StartPrice(ip, id, MaxRequests,
                     MaxInflight)
    \/ \E s \in Slots : PriceResponds(s, ErrPrices, AxiosErrors, Texts)
    \/ \E s \in Slots : DelayFires(s)
    \/ \E s \in Slots : InfoResponds(s, AxiosErrors)
    \/ Tick(ErrInstants)

SpecErr == Init /\ [][NextErr]_vars

\* GET /price traffic of one client up to the limit of the rate limiter,
\* with GET / and GET /health requests in between
NextOpen ==
    \/ \E ip \in SpecClients, id \in SpecIds :
          StartPrice(ip, id, MaxGateRequests, MaxBulkInflight)
    \/ \E ip \in SpecClients, id \in SpecIds, n \in SpecBursts :
          BurstPrice(ip, id, n, MaxGateRequests)
    \/ \E s \in Slots : PriceResponds(s, GatePrices, SpecErrors, {})
    \/ \E s \in Slots : DelayFires(s)
    \/ \E s \in Slots : InfoResponds(s, SpecErrors)
    \/ \E ip \in SpecClients : Root(ip)
    \/ Health
    \/ Tick(GateInstants)

SpecOpen == Init /\ [][NextOpen]_vars

\* both routes for one identifier over the lifetime of its cache entry,
\* against a provider that fails in every way axios reports
NextStale ==
    \/ \E ip \in SpecClients, id \in SpecIds :
          StartPrice(ip, id, MaxLiveRequests, MaxBulkInflight)
    \/ \E s \in Slots : PriceResponds(s, GatePrices, AxiosErrors, {})
    \/ \E s \in Slots : DelayFires(s)
    \/ \E s \in Slots : InfoResponds(s, AxiosErrors)
    \/ \E ip \in SpecClients, coinIds \in SpecBulkLists :
          StartBulk(ip, coinIds, MaxLiveRequests, MaxBulkInflight)
    \/ \E s \in Slots : BulkPriceResponds(s, GatePrices, AxiosErrors, {})
    \/ \E s \in Slots : BulkDelayFires(s)
    \/ \E s \in Slots, i \in BulkPositions :
          BulkInfoResponds(s, i, AxiosErrors)
    \/ Tick(StaleInstants)

SpecStale == Init /\ [][NextStale]_vars

\* GET /price traffic against a provider that fails in every way, with
\* GET /health requests and with requests the middlewares answer
NextCors ==
    \/ \E ip \in SpecClients, id \in SpecIds :
          StartPrice(ip, id, MaxRequests, MaxInflight)
    \/ \E s \in Slots : PriceResponds(s, GatePrices, AxiosErrors, {})
    \/ \E s \in Slots : DelayFires(s)
    \/ \E s \in Slots : InfoResponds(s, AxiosErrors)
    \/ Health
    \/ \E method \in Methods, body \in Bodies : Intercepted(method, body)
    \/ Tick(ErrInstants)

SpecCors == Init /\ [][NextCors]_vars

\* GET /price traffic for two identifiers over the lifetime of a cache
\* entry, with GET /health requests in between
NextHealth ==
    \/ \E ip \in SpecClients, id \in Ids :
          StartPrice(ip, id, MaxRequests, MaxInflight)
    \/ \E s \in Slots : PriceResponds(s, GatePrices, SpecErrors, {})
    \/ \E s \in Slots : DelayFires(s)
    \/ \E s \in Slots : InfoResponds(s, SpecErrors)
    \/ Health
    \/ Tick(HealthInstants)

SpecHealth == Init /\ [][NextHealth]_vars

\* the instant the timer of the request r expires
Due(r) == r.t0 + (IF r.route = "prices" THEN 300 ELSE 200)

\* the requests in flight that wait for their timer
Waiting == {s \in DOMAIN reqs : reqs[s].pc = "delay" /\ Due(reqs[s]) > now}

\* Date.now() moves on to the expiry of the next timer
TimerTick ==
    /\ \E s \in Waiting :
          /\ \A u \in Waiting : Due(reqs[s]) <= Due(reqs[u])
          /\ CallsSettleBy(Due(reqs[s]))
          /\ now' = Due(reqs[s])
    /\ out' = NoOut
    /\ UNCHANGED <<rateLimiter, cache, reqs, history, writes, started>>
    /\ UNCHANGED tickerVars

\* a step of a request in flight: an outbound call comes back or a timer
\* fires, the clock moving on to the timers
Settle ==
    \/ \E s \in Slots : PriceResponds(s, GatePrices, AxiosErrors, Texts)
    \/ \E s \in Slots : DelayFires(s)
    \/ \E s \in Slots : InfoResponds(s, AxiosErrors)
    \/ \E s \in Slots : BulkPriceResponds(s, GatePrices, AxiosErrors, Texts)
    \/ \E s \in Slots : BulkDelayFires(s)
    \/ \E s \in Slots, i \in BulkPositions :
          BulkInfoResponds(s, i, AxiosErrors)
    \/ TimerTick

\* both routes against a provider whose every call comes back, and timers
\* that fire: a step of a request in flight is taken when one stays possible
NextLive ==
    \/ \E ip \in SpecClients, id \in SpecIds :
          StartPrice(ip, id, MaxLiveRequests, MaxBulkInflight)
    \/ \E ip \in SpecClients, coinIds \in SpecBulkLists :
          StartBulk(ip, coinIds, MaxLiveRequests, MaxBulkInflight)
    \/ Settle

SpecLive == Init /\ [][NextLive]_vars /\ WF_vars(Settle)


----------------------------------------------------------------------------
(* The limiter on its own: direct calls of checkRateLimit and the clock.   *)

\* client ip calls checkRateLimit n times in a row at the current instant
CallCheckRateLimit(ip, n) ==
    /\ started < MaxCalls
    /\ Len(history[ip]) + n <= MaxLog
    /\ LET r == callMany(rateLimiter, history[ip], ip, now, n)
       IN  /\ rateLimiter' = r.rl
           /\ history' = [history EXCEPT ![ip] = r.h]
           /\ out' = [kind |-> "rl", ip |-> ip,
                      ok |-> r.h[Len(r.h)].ok,
                      allRejected |-> \A i \in (Len(history[ip]) + 1)..Len(r.h) :
                                         ~r.h[i].ok]
    /\ started' = started + 1
    /\ UNCHANGED <<now, cache, reqs, writes>>
    /\ UNCHANGED tickerVars

\* Date.now() moves on to a later reading
TickRL ==
    /\ \E t \in InstantsRL : t > now /\ now' = t
    /\ out' = NoOut
    /\ UNCHANGED <<rateLimiter, cache, reqs, history, writes, started>>
    /\ UNCHANGED tickerVars

NextRL ==
    \/ \E ip \in Clients, n \in BurstSizes : CallCheckRateLimit(ip, n)
    \/ TickRL

SpecRL == Init /\ [][NextRL]_vars

----------------------------------------------------------------------------
(* Properties of the rate limiter, stated over the log of decisions        *)
(* history[k] = the calls of client k in order, each with its instant and  *)
(* its outcome.                                                            *)

\* admitted calls of h with lo < time <= hi
AdmittedIn(h, lo, hi) ==
    Cardinality({j \in 1..Len(h) : h[j].ok /\ h[j].time > lo /\ h[j].time <= hi})

\* admitted calls before call i that lie in the trailing window of call i
AdmittedBefore(h, i) ==
    Cardinality({j \in 1..(i - 1) :
                    h[j].ok /\ h[j].time > h[i].time - RATE_LIMIT_WINDOW})

\* the window entry of client k: <<window>> or <<>> when the key is absent
Entry(rl, k) == IF k \in DOMAIN rl THEN <<rl[k]>> ELSE << >>

\* C1: with a non-decreasing clock, the recorded window of every client
\* never holds more than MAX_REQUESTS_PER_MINUTE timestamps, and no more than
\* MAX_REQUESTS_PER_MINUTE calls of one client are admitted within any span of
\* RATE_LIMIT_WINDOW milliseconds (the span (t - 60 s, t] ending at an
\* admission).
C1_WindowBound ==
    \A k \in Clients :
        /\ k \in DOMAIN rateLimiter =>
              Len(rateLimiter[k]) <= MAX_REQUESTS_PER_MINUTE
        /\ \A i \in 1..Len(history[k]) :
              history[k][i].ok =>
                 AdmittedIn(history[k],
                            history[k][i].time - RATE_LIMIT_WINDOW,
                            history[k][i].time) <= MAX_REQUESTS_PER_MINUTE

\* a full window, a rejection, and an admission after the window slid
C1_Witness ==
    \E k \in Clients :
        \E i, j \in 1..Len(history[k]) :
            /\ i < j
            /\ AdmittedBefore(history[k], i) = MAX_REQUESTS_PER_MINUTE
            /\ ~history[k][i].ok
            /\ history[k][j].ok
            /\ history[k][j].time = history[k][1].time + RATE_LIMIT_WINDOW

LastAdmittedBefore(h, i) ==
    LET S == {h[j].time : j \in {m \in 1..(i - 1) : h[m].ok}}
    IN  IF S = {} THEN -1 ELSE CHOOSE t \in S : \A u \in S : u <= t

\* C7: the window slides.  A call made more than RATE_LIMIT_WINDOW after the
\* previous call of its client is admitted, and so is every call made 61
\* seconds or more after the latest admitted call (the end of a burst),
\* wherever the wall-clock minute boundaries fall.
C7_Sliding ==
    \A k \in Clients :
        \A i \in 1..Len(history[k]) :
            /\ (i > 1 /\ history[k][i].time - history[k][i - 1].time
                            > RATE_LIMIT_WINDOW) => history[k][i].ok
            /\ (LastAdmittedBefore(history[k], i) >= 0
                /\ history[k][i].time
                      >= LastAdmittedBefore(history[k], i) + 61000)
                  => history[k][i].ok

\* a full burst, a rejection, then a call 61 s after the burst
C7_Witness ==
    \E k \in Clients :
        \E i, j \in 1..Len(history[k]) :
            /\ i < j
            /\ AdmittedBefore(history[k], i) = MAX_REQUESTS_PER_MINUTE
            /\ ~history[k][i].ok
            /\ history[k][j].time = LastAdmittedBefore(history[k], j) + 61000
            /\ history[k][j].ok

\* the oldest admitted call in the trailing window of call i
OldestInWindow(h, i) ==
    LET S == {h[j].time : j \in {m \in 1..(i - 1) :
                 h[m].ok /\ h[m].time > h[i].time - RATE_LIMIT_WINDOW}}
    IN  CHOOSE t \in S : \A u \in S : t <= u

\* calls i..j-1 are all rejected
AllRejected(h, i, j) == \A m \in i..(j - 1) : ~h[m].ok

\* the state half of C8
C8_BlockedNoLonger ==
    \A k \in Clients :
        \A i, j \in 1..Len(history[k]) :
            (/\ i < j
             /\ AllRejected(history[k], i, j)
             /\ history[k][j].time
                   >= OldestInWindow(history[k], i) + RATE_LIMIT_WINDOW)
               => history[k][j].ok

\* C8: a rejected call records no timestamp: it leaves the whole rateLimiter
\* map as it was, and however many rejected calls follow a rejection, the
\* first call made once the oldest counted request is RATE_LIMIT_WINDOW old
\* is admitted.
C8_RejectRecordsNothing ==
    /\ [][(out'.kind = "rl" /\ out'.allRejected) => rateLimiter' = rateLimiter]_vars
    /\ []C8_BlockedNoLonger

\* two rejections in a row at different instants, then an admission at the
\* instant the oldest request leaves the window
C8_Witness ==
    \E k \in Clients :
        \E i \in 1..Len(history[k]) :
            /\ i + 2 <= Len(history[k])
            /\ ~history[k][i].ok
            /\ ~history[k][i + 1].ok
            /\ history[k][i + 1].time > history[k][i].time
            /\ history[k][i + 2].ok
            /\ history[k][i + 2].time
                  = OldestInWindow(history[k], i) + RATE_LIMIT_WINDOW
            /\ out.kind = "rl" /\ out.ip = k

\* the state half of C9
C9_OwnHistoryDecides ==
    \A k \in Clients :
        \A i \in 1..Len(history[k]) :
            history[k][i].ok <=>
                AdmittedBefore(history[k], i) < MAX_REQUESTS_PER_MINUTE

\* C9: the limiter is keyed per client.  A call for one client leaves the
\* window of every other client as it was, and whether a call is admitted
\* depends on the earlier admitted calls of its own client only, whatever
\* the other clients did.
C9_PerClient ==
    /\ [][\A k \in Clients :
             (out'.kind = "rl" /\ out'.ip # k)
                => Entry(rateLimiter', k) = Entry(rateLimiter, k)]_vars
    /\ []C9_OwnHistoryDecides

\* one client rejected at its limit and the other admitted at the same
\* instant, after the first
C9_Witness ==
    \E k1, k2 \in Clients :
        /\ k1 # k2
        /\ Len(history[k1]) > MAX_REQUESTS_PER_MINUTE
        /\ ~history[k1][Len(history[k1])].ok
        /\ Len(history[k2]) > 0
        /\ history[k2][Len(history[k2])].ok
        /\ history[k2][Len(history[k2])].time = history[k1][Len(history[k1])].time
        /\ out.kind = "rl" /\ out.ip = k2

----------------------------------------------------------------------------
(* Properties of the cache and of the request handlers.  A response or an  *)
(* outbound call carries the instant its request arrived (startedAt) and,  *)
(* for GET /price/id, the number of cache writes made for id before the    *)
(* request arrived (seen).                                                 *)

\* out is the response to a GET /price request the rate limiter admitted
AdmittedPriceResponse ==
    /\ out.kind = "resp"
    /\ out.route = "price"
    /\ ~(out.status = 429 /\ out.body = LocalRateLimitResponse.body)

\* the cache writes for the identifier of out that its request found made
\* less than CACHE_DURATION before it arrived
FreshWritesSeen ==
    {k \in 1..out.seen :
        out.startedAt - writes[out.target][k].time < CACHE_DURATION}

\* C2 as stated: once a GET /price/id request has populated the cache, every
\* later GET /price/id request made less than CACHE_DURATION after that
\* write returns exactly the record of that request and issues no upstream
\* call.
C2_Original ==
    AdmittedPriceResponse =>
        \A k \in FreshWritesSeen :
            writes[out.target][k].route = "price" =>
                /\ out.status = 200
                /\ out.body = writes[out.target][k].data
                /\ out.priceCalls = 0
                /\ out.infoCalls = 0

\* C2 as amended: a GET /price/id request that the rate limiter admits and
\* that arrives less than CACHE_DURATION after a cache write for id issues
\* no upstream call and returns exactly the record of the most recent cache
\* write for id.
C2_CacheHit ==
    (AdmittedPriceResponse /\ FreshWritesSeen # {}) =>
        /\ out.status = 200
        /\ out.body = writes[out.target][out.seen].data
        /\ out.priceCalls = 0
        /\ out.infoCalls = 0

\* a request answered from an entry one millisecond short of CACHE_DURATION
C2_Witness ==
    /\ AdmittedPriceResponse
    /\ out.seen > 0
    /\ out.startedAt - writes[out.target][out.seen].time = CACHE_DURATION - 1
    /\ out.status = 200

\* this step is the arrival of a request the rate limiter admits
AdmittedArrival ==
    /\ started' = started + 1
    /\ out'.kind \in {"resp", "call"}
    /\ ~(out'.kind = "resp" /\ out'.status = 429)

\* the entry of id is in the cache and fresh at the current instant
EntryFresh(id) ==
    id \in DOMAIN cache /\ now - cache[id].timestamp < CACHE_DURATION

\* the entry of id is in the cache and CACHE_DURATION old or older
EntryStale(id) ==
    id \in DOMAIN cache /\ now - cache[id].timestamp >= CACHE_DURATION

\* out' is the 200 of a GET /price request that found the last write for its
\* identifier CACHE_DURATION old or older
RefreshedResponse ==
    /\ out'.kind = "resp"
    /\ out'.route = "price"
    /\ out'.status = 200
    /\ out'.seen > 0
    /\ out'.startedAt - writes[out'.target][out'.seen].time >= CACHE_DURATION

\* C3: a GET /price/id request that arrives CACHE_DURATION or more after
\* the entry of id was written is a cache miss: it issues the price call,
\* never more than one price call and one metadata call, and when it
\* succeeds it has made exactly one of each and the entry of id holds the
\* record it returns with the instant of the write as its timestamp.
C3_Refresh ==
    /\ [][\A id \in Ids :
             (AdmittedArrival /\ out'.route = "price" /\ out'.target = id
              /\ EntryStale(id))
                => (out'.kind = "call" /\ out'.api = "price"
                    /\ Len(reqs') = Len(reqs) + 1
                    /\ reqs'[Len(reqs')].pc = "price"
                    /\ reqs'[Len(reqs')].priceCalls = 1
                    /\ reqs'[Len(reqs')].infoCalls = 0)]_vars
    /\ [][RefreshedResponse
             => (/\ out'.priceCalls = 1
                 /\ out'.infoCalls = 1
                 /\ cache'[out'.target] =
                       [data |-> out'.body, timestamp |-> now'])]_vars
    /\ [](\A s \in DOMAIN reqs :
             reqs[s].route = "price"
                => (reqs[s].priceCalls = 1 /\ reqs[s].infoCalls <= 1))

\* a refresh of an entry exactly CACHE_DURATION old, with a new price
C3_Witness ==
    /\ out.kind = "resp"
    /\ out.route = "price"
    /\ out.status = 200
    /\ out.seen > 0
    /\ out.startedAt - writes[out.target][out.seen].time = CACHE_DURATION
    /\ out.priceCalls = 1
    /\ out.infoCalls = 1
    /\ out.body # writes[out.target][out.seen].data
    /\ cache[out.target].data = out.body
    /\ cache[out.target].timestamp > out.startedAt

\* C4: the lookup of an admitted GET /price/id request yields the stored
\* record exactly when an entry of id exists and is less than CACHE_DURATION
\* old (the request is answered with it); for a missing entry or one that is
\* CACHE_DURATION old or older it yields null (the request goes upstream);
\* in both cases the cache is left as it was.
C4_Lookup ==
    [][\A id \in Ids :
          (AdmittedArrival /\ out'.route = "price" /\ out'.target = id)
             => /\ EntryFresh(id) =>
                      (out'.kind = "resp" /\ out'.status = 200
                       /\ out'.body = cache[id].data)
                /\ ~EntryFresh(id) => out'.kind = "call"
                /\ cache' = cache]_vars

\* a lookup that finds an entry exactly CACHE_DURATION old and leaves it
C4_Witness ==
    /\ out.kind = "call"
    /\ out.route = "price"
    /\ out.api = "price"
    /\ out.target \in DOMAIN cache
    /\ now - cache[out.target].timestamp = CACHE_DURATION
    /\ \E s \in DOMAIN reqs : reqs[s].pc = "price" /\ reqs[s].startedAt = now

\* C5: a GET /price or GET /prices request that arrives when its client has
\* MAX_REQUESTS_PER_MINUTE admitted requests in the trailing window is
\* answered at once with the 429 of the rate limiter; no outbound call is
\* issued, no request is left in flight and the cache is not written, also
\* when the identifier is fresh in the cache.
C5_RejectShortCircuits ==
    [][(/\ started' = started + 1
        /\ out'.kind \in {"resp", "call"}
        /\ AdmittedIn(history[out'.ip], now - RATE_LIMIT_WINDOW, now)
              >= MAX_REQUESTS_PER_MINUTE)
          => (/\ out'.kind = "resp"
              /\ out'.status = 429
              /\ out'.body = [error |-> "Rate limit exceeded",
                              message |-> "Too many requests. Please try again later."]
              /\ out'.priceCalls = 0
              /\ out'.infoCalls = 0
              /\ reqs' = reqs
              /\ cache' = cache
              /\ writes' = writes)]_vars

\* a rejected GET /price request whose identifier is fresh in the cache
C5_Witness ==
    /\ out.kind = "resp"
    /\ out.route = "price"
    /\ out.status = 429
    /\ out.body = LocalRateLimitResponse.body
    /\ EntryFresh(out.target)
    /\ history[out.ip][Len(history[out.ip])].ok = FALSE

\* the requests of client k in flight that arrived in the trailing window
InFlightInWindow(k) ==
    {s \in DOMAIN reqs :
                   /\ reqs[s].ip = k
                   /\ reqs[s].startedAt > now - RATE_LIMIT_WINDOW}

\* C10: whatever the interleaving of the requests in flight, no more than
\* MAX_REQUESTS_PER_MINUTE requests of one client are admitted in the
\* trailing window, and every request in flight is one of those counted.
C10_AtomicAdmission ==
    \A k \in Clients :
        /\ AdmittedIn(history[k], now - RATE_LIMIT_WINDOW, now)
              <= MAX_REQUESTS_PER_MINUTE
        /\ Cardinality(InFlightInWindow(k))
              <= AdmittedIn(history[k], now - RATE_LIMIT_WINDOW, now)

\* a request rejected at the limit while another request of the same client
\* is suspended on its upstream call
C10_Witness ==
    /\ out.kind = "resp"
    /\ out.status = 429
    /\ out.body = LocalRateLimitResponse.body
    /\ AdmittedIn(history[out.ip], now - RATE_LIMIT_WINDOW, now)
          = MAX_REQUESTS_PER_MINUTE
    /\ InFlightInWindow(out.ip) # {}


----------------------------------------------------------------------------
(* Properties of GET /price/:id against the provider.  A response sent     *)
(* after an outbound call carries the outcome of the call that brought it  *)
(* about (cause).                                                          *)

\* out is the response of a GET /price request that went upstream
UpstreamPriceResponse ==
    /\ out.kind = "resp"
    /\ out.route = "price"
    /\ out.priceCalls = 1

\* out is the response of a GET /price request ended by an error of axios
FailedOnAxiosError ==
    /\ UpstreamPriceResponse
    /\ ~out.cause.outcome.ok

\* C15: a GET /price/id request that misses the cache, finds id in the
\* price response and gets the metadata responds 200 with the metadata
\* name, the upper-cased metadata symbol and the usd value of the price
\* response.
C15_FreshRecord ==
    (/\ UpstreamPriceResponse
     /\ out.cause.api = "info"
     /\ out.cause.outcome.ok)
        => /\ out.status = 200
           /\ out.infoCalls = 1
           /\ out.body.name = out.cause.outcome.data.name
           /\ out.body.symbol = ToUpperCase(out.cause.outcome.data.symbol)
           /\ out.body.price = out.cause.priceData[out.target].usd
           /\ DOMAIN out.body = {"name", "symbol", "price"}

\* a 200 for bitcoin quoted at 2, with the symbol btc upper-cased
C15_Witness ==
    /\ UpstreamPriceResponse
    /\ out.status = 200
    /\ out.cause.outcome.data = [name |-> "Bitcoin", symbol |-> "btc"]
    /\ out.cause.priceData = [bitcoin |-> [usd |-> 2]]
    /\ out.body = [name |-> "Bitcoin", symbol |-> "BTC", price |-> 2]

\* the 404 of GET /price
NotFoundBody ==
    [error |-> "Cryptocurrency not found",
     message |-> "The specified cryptocurrency ID does not exist"]

\* C16: when the price map of the provider lacks the identifier, or the
\* provider answers 404, GET /price responds 404 'Cryptocurrency not found'.
C16_NotFound ==
    (/\ UpstreamPriceResponse
     /\ \/ /\ out.cause.api = "price"
           /\ out.cause.outcome.ok
           /\ out.cause.outcome.data \in PriceMaps({out.target}, ErrPrices)
           /\ out.target \notin DOMAIN out.cause.outcome.data
        \/ /\ ~out.cause.outcome.ok
           /\ out.cause.outcome.error.status = 404)
        => /\ out.status = 404
           /\ out.body = NotFoundBody

\* a 404 of the provider on the metadata call, answered with 404
C16_Witness ==
    /\ FailedOnAxiosError
    /\ out.cause.api = "info"
    /\ out.cause.outcome.error.status = 404
    /\ out.status = 404

\* C17: a 429 of the provider on either outbound call yields a 429 whose
\* message differs from that of the local rate limiter, and an outbound call
\* aborted by its timeout yields 408 'Request timeout'.
C17_UpstreamLimitAndTimeout ==
    FailedOnAxiosError
        => /\ out.cause.outcome.error.status = 429
                => /\ out.status = 429
                   /\ out.body = [error |-> "Rate limit exceeded",
                                   message |-> "API rate limit exceeded. Please try again later."]
                   /\ out.body.message # LocalRateLimitResponse.body.message
           /\ (out.cause.outcome.error.status = 0
                /\ out.cause.outcome.error.code = "ECONNABORTED")
                => /\ out.status = 408
                   /\ out.body = [error |-> "Request timeout",
                                   message |-> "Request took too long to complete"]

\* a metadata call aborted by its timeout, answered with 408
C17_Witness ==
    /\ FailedOnAxiosError
    /\ out.cause.api = "info"
    /\ out.cause.outcome.error.code = "ECONNABORTED"
    /\ out.status = 408

\* C18: an error of the provider that is neither a 404, nor a 429, nor a
\* timeout yields the 500 with the fixed body, whatever the error says.
C18_GenericError ==
    (/\ FailedOnAxiosError
     /\ out.cause.outcome.error.status \notin {404, 429}
     /\ out.cause.outcome.error.code # "ECONNABORTED")
        => /\ out.status = 500
           /\ out.body = [error |-> "Internal server error",
                           message |-> "Failed to fetch cryptocurrency data"]

\* a network error answered with the fixed 500
C18_Witness ==
    /\ FailedOnAxiosError
    /\ out.cause.outcome.error.message = "Network error"
    /\ out.status = 500
    /\ out.body.message # out.cause.outcome.error.message

\* C19 as stated: a 200 of the price call whose body is not the JSON price
\* map makes GET /price respond 500 'Internal server error'.
C19_Original ==
    (/\ UpstreamPriceResponse
     /\ out.cause.api = "price"
     /\ out.cause.outcome.ok
     /\ out.cause.outcome.data \in {TextBody(x) : x \in Texts})
        => /\ out.status = 500
           /\ out.body.error = "Internal server error"


----------------------------------------------------------------------------
(* Properties of GET /prices/:ids.  The price call of a bulk request       *)
(* carries the identifiers it asks for (ids); a response sent after the    *)
(* metadata calls carries the price body, the outcomes of the metadata     *)
(* calls and the partition the request made when it arrived (cause).       *)

\* this step is the arrival of a GET /prices request the rate limiter admits
AdmittedBulkArrival ==
    /\ AdmittedArrival
    /\ out'.route = "prices"

\* the identifiers of the list ids that are not fresh in the cache
MissingNow(ids) == {id \in IdSet(ids) : ~EntryFresh(id)}

\* out is the 200 of a GET /prices request that went upstream
FetchedBulkResponse ==
    /\ out.kind = "resp"
    /\ out.route = "prices"
    /\ out.status = 200
    /\ out.priceCalls = 1

\* the identifiers a bulk request asked the provider for and got a price for
PricedIds(cause) ==
    {id \in IdSet(cause.missingIds) : id \in DOMAIN cause.priceData}

\* C11: a GET /prices request with an identifier that is not fresh in the
\* cache issues one combined price call, for exactly the identifiers that
\* are not fresh, and holds the records of the fresh ones; no bulk request
\* makes a second price call; the response holds the records of the fresh
\* identifiers and an entry for every asked identifier the provider priced.
C11_Partition ==
    /\ [][(AdmittedBulkArrival /\ MissingNow(out'.target) # {})
             => (/\ out'.kind = "call"
                 /\ out'.api = "price"
                 /\ IdSet(out'.ids) = MissingNow(out'.target)
                 /\ Len(reqs') = Len(reqs) + 1
                 /\ reqs'[Len(reqs')].priceCalls = 1
                 /\ reqs'[Len(reqs')].cachedResults =
                       [id \in IdSet(out'.target) \ MissingNow(out'.target)
                           |-> cache[id].data])]_vars
    /\ [](\A s \in DOMAIN reqs :
             reqs[s].route = "prices" => reqs[s].priceCalls = 1)
    /\ [](FetchedBulkResponse
            => /\ \A id \in DOMAIN out.cause.cachedResults :
                     /\ id \in DOMAIN out.body
                     /\ out.body[id] = out.cause.cachedResults[id]
               /\ \A id \in PricedIds(out.cause) : id \in DOMAIN out.body)

\* bitcoin served from the cache and ethereum fetched, in one response
C11_Witness ==
    /\ FetchedBulkResponse
    /\ DOMAIN out.cause.cachedResults = {"bitcoin"}
    /\ out.cause.missingIds = <<"ethereum">>
    /\ DOMAIN out.body = {"bitcoin", "ethereum"}

\* C12: a GET /prices request whose identifiers are all fresh in the cache
\* is answered at once with 200 and the cached record of every identifier,
\* without an outbound call.
C12_AllCached ==
    [][(AdmittedBulkArrival /\ MissingNow(out'.target) = {})
          => (/\ out'.kind = "resp"
              /\ out'.status = 200
              /\ out'.body = [id \in IdSet(out'.target) |-> cache[id].data]
              /\ out'.priceCalls = 0
              /\ out'.infoCalls = 0
              /\ reqs' = reqs
              /\ cache' = cache)]_vars

\* both identifiers answered from the cache
C12_Witness ==
    /\ out.kind = "resp"
    /\ out.route = "prices"
    /\ out.status = 200
    /\ out.priceCalls = 0
    /\ DOMAIN out.body = {"bitcoin", "ethereum"}
    /\ \A id \in DOMAIN out.body : out.body[id] = cache[id].data


\* out is the response of a GET /prices request whose price call came back
\* with a 200
PricedBulkResponse ==
    /\ out.kind = "resp"
    /\ out.route = "prices"
    /\ out.priceCalls = 1
    /\ out.cause.api = "info"

\* C13: once the price call of a GET /prices request has come back with a
\* 200, the request is answered 200 whatever the price map holds, and the
\* keys of the response are exactly the identifiers that were fresh in the
\* cache when the request arrived and the asked identifiers the price map
\* holds; an asked identifier the price map lacks is left out.
C13_KeySet ==
    PricedBulkResponse
        => /\ out.status = 200
           /\ DOMAIN out.body =
                 DOMAIN out.cause.cachedResults \cup PricedIds(out.cause)
           /\ DOMAIN out.body \subseteq IdSet(out.target)
           /\ \A id \in IdSet(out.cause.missingIds) :
                 id \notin DOMAIN out.cause.priceData
                    => id \notin DOMAIN out.body

\* a 200 with an empty mapping: the provider knows neither identifier
C13_Witness ==
    /\ PricedBulkResponse
    /\ out.cause.missingIds = <<"bitcoin", "ethereum">>
    /\ out.cause.priceData = << >>
    /\ out.status = 200
    /\ out.body = << >>

\* id has a cache write made by a GET /prices request less than
\* CACHE_DURATION before the instant t
FreshBulkWrite(id, t) ==
    \E k \in 1..Len(writes[id]) :
        /\ writes[id][k].route = "prices"
        /\ writes[id][k].time <= t
        /\ t - writes[id][k].time < CACHE_DURATION

\* C14: when a GET /prices request that went upstream is answered 200, the
\* cache holds, for every asked identifier the price map holds, the record
\* sent with the instant of the response as its timestamp, and is left as
\* it was for an asked identifier the price map lacks; a GET /price request
\* the limiter admits less than CACHE_DURATION after such a write is
\* answered from the cache without an outbound call, and a GET /prices
\* request does not ask the provider for that identifier.
C14_BulkWritesCache ==
    /\ [][(/\ out'.kind = "resp"
           /\ out'.route = "prices"
           /\ out'.status = 200
           /\ out'.priceCalls = 1)
             => \A id \in IdSet(out'.cause.missingIds) :
                   IF id \in DOMAIN out'.cause.priceData
                   THEN /\ id \in DOMAIN cache'
                        /\ cache'[id] = [data |-> out'.body[id],
                                         timestamp |-> now]
                   ELSE Entry(cache', id) = Entry(cache, id)]_vars
    /\ []((/\ AdmittedPriceResponse
            /\ \E k \in FreshWritesSeen :
                   writes[out.target][k].route = "prices")
            => /\ out.status = 200
               /\ out.priceCalls = 0
               /\ out.infoCalls = 0)
    /\ [][AdmittedBulkArrival
             => \A id \in IdSet(out'.target) :
                   FreshBulkWrite(id, now)
                      => IF out'.kind = "call"
                         THEN id \notin IdSet(out'.ids)
                         ELSE /\ out'.status = 200
                              /\ id \in DOMAIN out'.body]_vars

\* GET /price/ethereum answered from the record a bulk request wrote one
\* millisecond less than CACHE_DURATION earlier
C14_Witness ==
    /\ AdmittedPriceResponse
    /\ out.target = "ethereum"
    /\ out.seen > 0
    /\ writes[out.target][out.seen].route = "prices"
    /\ out.startedAt - writes[out.target][out.seen].time = CACHE_DURATION - 1
    /\ out.status = 200
    /\ out.priceCalls = 0
    /\ "bitcoin" \notin DOMAIN cache

\* C20: in the response of a GET /prices request that went upstream, an
\* asked identifier with a price whose metadata call failed has the
\* identifier as its name and the upper-cased identifier as its symbol, and
\* every asked identifier with a price whose metadata call succeeded has
\* the name and the upper-cased symbol of the provider, whatever became of
\* the metadata calls of the others.
C20_Fallback ==
    FetchedBulkResponse
        => \A i \in DOMAIN out.cause.missingIds :
              LET id == out.cause.missingIds[i]
                  o == out.cause.outcomes[i]
              IN  id \in DOMAIN out.cause.priceData
                     => /\ id \in DOMAIN out.body
                        /\ out.body[id].price = out.cause.priceData[id].usd
                        /\ IF o.ok
                           THEN /\ out.body[id].name = o.data.name
                                /\ out.body[id].symbol
                                      = ToUpperCase(o.data.symbol)
                           ELSE /\ out.body[id].name = id
                                /\ out.body[id].symbol = ToUpperCase(id)

\* the metadata call of bitcoin failed and that of ethereum did not
C20_Witness ==
    /\ FetchedBulkResponse
    /\ out.cause.missingIds = <<"bitcoin", "ethereum">>
    /\ ~out.cause.outcomes[1].ok
    /\ out.cause.outcomes[2].ok
    /\ out.body = [bitcoin |-> [name |-> "bitcoin", symbol |-> "BITCOIN",
                                 price |-> 1],
                    ethereum |-> [name |-> "Ethereum", symbol |-> "ETH",
                                  price |-> 1]]

----------------------------------------------------------------------------
(* The metadata call of GET /price/:id.                                    *)

\* C21 as stated: when the price call of GET /price/id finds the identifier
\* and the metadata call then fails, the request responds 200 with the
\* price and with the identifier as name and as upper-cased symbol.
C21_Original ==
    (/\ FailedOnAxiosError
     /\ out.cause.api = "info"
     /\ out.target \in DOMAIN out.cause.priceData)
        => /\ out.status = 200
           /\ out.body = [name |-> out.target,
                          symbol |-> ToUpperCase(out.target),
                          price |-> out.cause.priceData[out.target].usd]

----------------------------------------------------------------------------
(* The combined price call of GET /prices/:ids fails.                      *)

\* out is the response of a GET /prices request whose price call failed
FailedBulkResponse ==
    /\ out.kind = "resp"
    /\ out.route = "prices"
    /\ out.priceCalls = 1
    /\ out.cause.api = "price"
    /\ ~out.cause.outcome.ok

C23_Original ==
    (/\ out.kind = "resp"
     /\ out.route = "prices")
        => /\ (out.priceCalls = 0 /\ ~history[out.ip][Len(history[out.ip])].ok
                 /\ history[out.ip][Len(history[out.ip])].time = out.startedAt
                 /\ out.status # 200)
                 => out.status = 429
           /\ (FailedBulkResponse /\ out.cause.outcome.error.status = 429)
                 => out.status = 429

\* C24 as stated: every record sent with 200 by GET /price and every record
\* held by the cache has a price above zero.
C24_Original ==
    /\ (out.kind = "resp" /\ out.route = "price" /\ out.status = 200)
          => out.body.price > 0
    /\ \A id \in DOMAIN cache : cache[id].data.price > 0

----------------------------------------------------------------------------
(* Requests in flight at the same time.                                    *)

\* a GET /price request for id is in flight
InFlightFor(id) ==
    \E s \in DOMAIN reqs : reqs[s].route = "price" /\ reqs[s].target = id

\* the last cache write for id
LastWrite(id) == writes[id][Len(writes[id])]

\* C25: a GET /price/id request that misses the cache while another one for
\* id is in flight issues its own price call; each of them that succeeds
\* writes its own record to the cache, so the entry of id is always the
\* record of the request that wrote last.
C25_LastWriteWins ==
    /\ [][\A id \in Ids :
             (AdmittedArrival /\ out'.route = "price" /\ out'.target = id
              /\ ~EntryFresh(id) /\ InFlightFor(id))
                => (/\ out'.kind = "call"
                    /\ out'.api = "price"
                    /\ Len(reqs') = Len(reqs) + 1)]_vars
    /\ [][(/\ out'.kind = "resp"
           /\ out'.route = "price"
           /\ out'.status = 200
           /\ out'.priceCalls = 1)
             => (/\ cache'[out'.target]
                       = [data |-> out'.body, timestamp |-> now]
                 /\ writes'[out'.target]
                       = Append(writes[out'.target],
                                WriteEntry("price", out'.body)))]_vars
    /\ [](\A id \in DOMAIN cache :
             /\ Len(writes[id]) > 0
             /\ cache[id] = [data |-> LastWrite(id).data,
                             timestamp |-> LastWrite(id).time])

\* two requests for bitcoin both arrived before any write, fetched records
\* that differ and wrote them one after the other; the entry is the second
C25_Witness ==
    /\ out.kind = "resp"
    /\ out.route = "price"
    /\ out.status = 200
    /\ out.priceCalls = 1
    /\ out.seen = 0
    /\ Len(writes[out.target]) = 2
    /\ writes[out.target][1].data # writes[out.target][2].data
    /\ cache[out.target].data = out.body
    /\ out.body = writes[out.target][2].data

\* out is a 200 of GET /price
PriceSuccess ==
    /\ out.kind = "resp"
    /\ out.route = "price"
    /\ out.status = 200

\* C26 as stated: a 200 of a GET /price/id request that was in flight when
\* another GET /price/id request was answered 200 carries the data of that
\* answer.
C26_Original ==
    [][(/\ PriceSuccess
        /\ PriceSuccess'
        /\ out'.target = out.target
        /\ out'.priceCalls = 1)
          => out'.body = out.body]_vars

\* every record of the write log w is the same record
FetchedSame(w) ==
    \A j, k \in 1..Len(w) : w[j].data = w[k].data

\* C26, amended: a 200 of GET /price/id carries the record its own request
\* fetched or the record of the last write its request found; so a 200 of
\* a request that was in flight when another GET /price/id request was
\* answered 200 carries the data of that answer provided the fetches made
\* for id returned the same data.
C26_SameWhenFetchedSame ==
    /\ [](PriceSuccess
            => /\ out.priceCalls = 0
                    => /\ out.seen > 0
                       /\ out.body = writes[out.target][out.seen].data
               /\ out.priceCalls = 1
                    => \E k \in (out.seen + 1)..Len(writes[out.target]) :
                          out.body = writes[out.target][k].data)
    /\ [][(/\ PriceSuccess
           /\ PriceSuccess'
           /\ out'.target = out.target
           /\ out'.priceCalls = 1
           /\ FetchedSame(writes'[out'.target]))
             => out'.body = out.body]_vars

\* two requests for bitcoin both arrived before any write and fetched the
\* same record: the second answers what the first did
C26_Witness ==
    /\ PriceSuccess
    /\ out.priceCalls = 1
    /\ out.seen = 0
    /\ Len(writes[out.target]) = 2
    /\ writes[out.target][1].data = out.body
    /\ writes[out.target][2].data = out.body
    /\ writes[out.target][1].time = writes[out.target][2].time

\* some request in flight is suspended on an upstream call
UpstreamPending ==
    \E s \in DOMAIN reqs : reqs[s].pc \in {"price", "info"}

\* C27: a request that arrives (on its own, not in a burst) while another
\* one is suspended on an upstream call is handled in the step of its
\* arrival; when the limiter
\* rejects it, it is answered 429 and, when it is a GET /price request the
\* limiter admits for an identifier fresh in the cache, it is answered 200
\* with the cached record, and in both cases the suspended requests stay as
\* they are.
C27_NoBlocking ==
    [][(/\ started' = started + 1
        /\ UpstreamPending
        /\ \A k \in Clients : Len(history'[k]) <= Len(history[k]) + 1)
          => /\ out'.kind \in {"resp", "call"}
             /\ AdmittedIn(history[out'.ip], now - RATE_LIMIT_WINDOW, now)
                   >= MAX_REQUESTS_PER_MINUTE
                   => /\ out'.kind = "resp"
                      /\ out'.status = 429
                      /\ out'.startedAt = now
                      /\ reqs' = reqs
             /\ (/\ AdmittedIn(history[out'.ip], now - RATE_LIMIT_WINDOW, now)
                       < MAX_REQUESTS_PER_MINUTE
                 /\ out'.route = "price"
                 /\ EntryFresh(out'.target))
                   => /\ out'.kind = "resp"
                      /\ out'.status = 200
                      /\ out'.body = cache[out'.target].data
                      /\ out'.startedAt = now
                      /\ out'.priceCalls = 0
                      /\ reqs' = reqs]_vars

\* a GET /price request served from the cache in the step of its arrival
\* while the metadata call of an earlier request for the same identifier
\* has not come back
C27_Witness ==
    /\ PriceSuccess
    /\ out.priceCalls = 0
    /\ out.startedAt = now
    /\ \E s \in DOMAIN reqs :
          /\ reqs[s].pc = "info"
          /\ reqs[s].target = out.target
          /\ reqs[s].startedAt < now

----------------------------------------------------------------------------
(* Every request is answered.                                              *)

\* C28: when every outbound call comes back and every timer fires, every
\* GET /price and GET /prices request produces exactly one response: a
\* request is answered in the step of its arrival or suspended, a suspended
\* request leaves the requests in flight in the step that sends its
\* response and in no other, and whenever requests are in flight there
\* comes a response that leaves none in flight.
C28_ExactlyOneResponse ==
    /\ [][/\ started' = started + 1
             => \/ out'.kind = "resp" /\ reqs' = reqs
                \/ /\ out'.kind = "call"
                   /\ Len(reqs') = Len(reqs) + 1
                   /\ SubSeq(reqs', 1, Len(reqs)) = reqs
          /\ started' = started
             => /\ Len(reqs') \in {Len(reqs), Len(reqs) - 1}
                /\ out'.kind = "resp" <=> Len(reqs') = Len(reqs) - 1
                /\ out'.kind = "resp"
                      => \E s \in DOMAIN reqs :
                            /\ reqs' = Finish(s)
                            /\ out'.startedAt = reqs[s].startedAt
                            /\ out'.route = reqs[s].route]_vars
    /\ (reqs # << >>) ~> (reqs = << >> /\ out.kind = "resp")

\* the last request the run receives has been answered on an error path,
\* after its timer fired and its metadata call ran into the timeout, and
\* none is left in flight
C28_Witness ==
    /\ started = MaxLiveRequests
    /\ reqs = << >>
    /\ out.kind = "resp"
    /\ out.priceCalls = 1
    /\ out.infoCalls = 1
    /\ out.status = 408
    /\ out.startedAt < now

----------------------------------------------------------------------------
(* GET /health and the size of the cache.                                  *)

\* out is the response of a GET /health request
HealthResponse == out.kind = "resp" /\ out.route = "health"

\* the identifiers fetched with success since the start
FetchedIds == {id \in Ids : writes[id] # << >>}

\* C29: the cache_size of a GET /health response is the number of entries
\* the cache holds, fresh or stale, which is the number of identifiers
\* fetched with success since the start; no step removes an entry, so the
\* number never decreases.
C29_CacheSize ==
    /\ [](HealthResponse
            => /\ out.body.cache_size = Cardinality(DOMAIN cache)
               /\ out.body.cache_size = Cardinality(FetchedIds))
    /\ [][/\ DOMAIN cache \subseteq DOMAIN cache'
          /\ Cardinality(DOMAIN cache') >= Cardinality(DOMAIN cache)]_vars

\* a GET /health response that counts the stale entry of bitcoin and the
\* fresh entry of ethereum
C29_Witness ==
    /\ HealthResponse
    /\ out.body.cache_size = 2
    /\ EntryStale("bitcoin")
    /\ EntryFresh("ethereum")

----------------------------------------------------------------------------
(* The CORS headers.                                                       *)

\* C30 as stated: every response of the service carries
\* Access-Control-Allow-Origin '*', and an OPTIONS request is answered 200.
C30_Original ==
    out.kind = "resp"
        => /\ "Access-Control-Allow-Origin" \in DOMAIN out.headers
           /\ out.headers["Access-Control-Allow-Origin"] = "*"
           /\ out.route \in {"cors", "error"}
                 => (out.method = "OPTIONS" => out.status = 200)

----------------------------------------------------------------------------
(* The order of the steps of a GET /price request.                         *)

\* the stage a request in flight has reached, numbered in their order
Stage(r) ==
    CASE r.pc = "price" -> 1
      [] r.pc = "delay" -> 2
      [] r.pc = "info" -> 3

\* C31: a GET /price request issues its price call only when the limiter
\* admitted it and its identifier was not fresh in the cache; in flight it
\* goes from the price call to the timer to the metadata call, never back;
\* the cache is written only in the step in which a request whose two
\* calls succeeded sends its 200, and when that 200 is sent the entry of
\* the identifier already holds the record it carries.
C31_RequestOrder ==
    /\ [][(started' = started + 1 /\ out'.kind = "call")
             => (/\ out'.api = "price"
                 /\ history'[out'.ip][Len(history'[out'.ip])].ok
                 /\ ~EntryFresh(out'.target)
                 /\ reqs' = Append(reqs, reqs'[Len(reqs')])
                 /\ reqs'[Len(reqs')].pc = "price")]_vars
    /\ [][started' = started
             => \A s \in DOMAIN reqs :
                   \/ reqs' = Finish(s)
                   \/ /\ s \in DOMAIN reqs'
                      /\ Stage(reqs'[s]) \in {Stage(reqs[s]),
                                              Stage(reqs[s]) + 1}
                   \/ \E u \in DOMAIN reqs : u < s /\ reqs' = Finish(u)]_vars
    /\ [][cache' # cache
             => (/\ PriceSuccess'
                 /\ out'.priceCalls = 1
                 /\ out'.infoCalls = 1
                 /\ out'.cause.api = "info"
                 /\ out'.cause.outcome.ok
                 /\ \E s \in DOMAIN reqs :
                       reqs[s].pc = "info" /\ reqs' = Finish(s))]_vars
    /\ []((PriceSuccess /\ out.priceCalls = 1)
             => /\ out.target \in DOMAIN cache
                /\ cache[out.target].data = out.body
                /\ LastWrite(out.target).data = out.body)

\* a request that missed the cache has been answered 200 after its price
\* call, its timer and its metadata call, and the entry holds its record
C31_Witness ==
    /\ PriceSuccess
    /\ out.priceCalls = 1
    /\ out.infoCalls = 1
    /\ out.startedAt + 200 <= now
    /\ cache[out.target] = [data |-> out.body, timestamp |-> now]
    /\ reqs = << >>
    /\ started = 1

----------------------------------------------------------------------------
(* The edge of the rate-limit window.                                      *)

\* admitted calls before call i made exactly RATE_LIMIT_WINDOW before it
AdmittedAtEdge(h, i) ==
    Cardinality({j \in 1..(i - 1) :
                    h[j].ok /\ h[j].time = h[i].time - RATE_LIMIT_WINDOW})

\* C32 as stated: a call made exactly RATE_LIMIT_WINDOW after
\* MAX_REQUESTS_PER_MINUTE admitted calls of its client is rejected.
C32_Original ==
    \A k \in Clients :
        \A i \in 1..Len(history[k]) :
            AdmittedAtEdge(history[k], i) >= MAX_REQUESTS_PER_MINUTE
                => ~history[k][i].ok

\* C32, amended: checkRateLimit prunes the timestamps whose age is
\* RATE_LIMIT_WINDOW or more: a call is admitted exactly when fewer than
\* MAX_REQUESTS_PER_MINUTE admitted calls of its client are younger than
\* RATE_LIMIT_WINDOW, a recorded timestamp exactly RATE_LIMIT_WINDOW old is
\* gone from the window after the call, and so a client with
\* MAX_REQUESTS_PER_MINUTE admitted calls at one instant is admitted again
\* RATE_LIMIT_WINDOW later.
C32_PrunedAtEdge ==
    \A k \in Clients :
        /\ \A i \in 1..Len(history[k]) :
              /\ history[k][i].ok
                    <=> AdmittedBefore(history[k], i) < MAX_REQUESTS_PER_MINUTE
              /\ (/\ AdmittedAtEdge(history[k], i) >= MAX_REQUESTS_PER_MINUTE
                  /\ AdmittedBefore(history[k], i) = 0)
                    => history[k][i].ok
        /\ (k \in DOMAIN rateLimiter /\ Len(history[k]) > 0)
              => \A m \in 1..Len(rateLimiter[k]) :
                    rateLimiter[k][m]
                       > history[k][Len(history[k])].time - RATE_LIMIT_WINDOW

\* a full burst at 0, a call rejected at 59999 and a call admitted at 60000
C32_Witness ==
    \E k \in Clients :
        \E i, j \in 1..Len(history[k]) :
            /\ AdmittedAtEdge(history[k], j) = MAX_REQUESTS_PER_MINUTE
            /\ history[k][j].ok
            /\ history[k][j].time = RATE_LIMIT_WINDOW
            /\ history[k][i].time = RATE_LIMIT_WINDOW - 1
            /\ ~history[k][i].ok
            /\ k \in DOMAIN rateLimiter
            /\ rateLimiter[k] = <<RATE_LIMIT_WINDOW>>

----------------------------------------------------------------------------
(* The pacing of the outbound calls.                                       *)

\* the delay between the price call and the metadata calls of the request r
Delay(r) == IF r.route = "prices" THEN 300 ELSE 200

\* C33: a metadata call goes out only for a request whose price call has
\* come back with a body and whose delay (200 ms for GET /price, 300 ms for
\* GET /prices) has elapsed since; a GET /price request whose price call
\* failed, or came back without its identifier, is answered without a
\* metadata call, and no request waiting for its price call or its timer
\* has issued one.
C33_Paced ==
    /\ [][(out'.kind = "call" /\ out'.api = "info")
             => \E s \in DOMAIN reqs :
                   /\ reqs[s].pc = "delay"
                   /\ reqs' = [reqs EXCEPT ![s] = reqs'[s]]
                   /\ reqs'[s].pc = "info"
                   /\ "priceData" \in DOMAIN reqs[s]
                   /\ now - reqs[s].t0 >= Delay(reqs[s])
                   /\ reqs[s].t0 >= reqs[s].startedAt
                   /\ reqs[s].route = "price"
                         => reqs[s].target \in DOMAIN reqs[s].priceData]_vars
    /\ []((UpstreamPriceResponse /\ out.cause.api = "price")
             => out.infoCalls = 0)
    /\ [](\A s \in DOMAIN reqs :
             reqs[s].infoCalls > 0 <=> reqs[s].pc = "info")

\* the metadata call of a GET /price request goes out 300 ms after the
\* request arrived, its price call having come back at once
C33_Witness ==
    /\ out.kind = "call"
    /\ out.api = "info"
    /\ out.route = "price"
    /\ \E s \in DOMAIN reqs :
          /\ reqs[s].pc = "info"
          /\ reqs[s].infoCalls = 1
          /\ reqs[s].t0 = now
          /\ now >= reqs[s].startedAt + 200

----------------------------------------------------------------------------
(* Requests that end in an error and the cache.                            *)

\* out is a GET /price or GET /prices response that reports an error
ErrorResponse ==
    /\ out.kind = "resp"
    /\ out.route \in {"price", "prices"}
    /\ out.status \in {404, 408, 429, 500}

\* C34: the step in which a GET /price or GET /prices request is answered
\* 404, 408, 429 or 500 leaves the cache as it was, an entry that has gone
\* stale included, and the answer carries an error and a message, no
\* record; so the cache holds an identifier only once a fetch of it
\* succeeded, and a GET /price request the limiter admits for an identifier
\* the cache does not hold fresh issues its price call, whatever earlier
\* requests for it ended in.
C34_ErrorLeavesCache ==
    /\ [][ErrorResponse' => cache' = cache /\ writes' = writes]_vars
    /\ [](ErrorResponse => DOMAIN out.body = {"error", "message"})
    /\ [](\A id \in Ids : id \in DOMAIN cache <=> writes[id] # << >>)
    /\ [][\A id \in Ids :
             (AdmittedArrival /\ out'.route = "price" /\ out'.target = id
              /\ ~EntryFresh(id))
                => out'.kind = "call" /\ out'.api = "price"]_vars

\* a GET /price request that found the entry of its identifier stale is
\* answered 500 after the provider failed, and the stale entry is still
\* there
C34_Witness ==
    /\ ErrorResponse
    /\ out.route = "price"
    /\ out.status = 500
    /\ out.priceCalls = 1
    /\ out.seen = 1
    /\ out.startedAt - writes[out.target][1].time >= CACHE_DURATION
    /\ EntryStale(out.target)
    /\ cache[out.target].data = writes[out.target][1].data

----------------------------------------------------------------------------
(* The quota a request consumes.                                           *)

\* the window of client k as the filter of checkRateLimit leaves it at the
\* current instant
PrunedWindow(k) ==
    IF k \in DOMAIN rateLimiter
    THEN FilterRecent(rateLimiter[k], now - RATE_LIMIT_WINDOW)
    ELSE << >>

\* C35: the arrival of a GET /price or GET /prices request the limiter
\* admits adds exactly one timestamp, the current instant, to the pruned
\* window of its client, whether it is served from the cache or goes
\* upstream and however many identifiers it names, and leaves the windows
\* of the other clients alone; no later step of a request, its response
\* with 200, 404, 408, 429 or 500 included, touches any window.
C35_OneSlot ==
    /\ [][(/\ started' = started + 1
           /\ out'.kind \in {"resp", "call"}
           /\ history'[out'.ip][Len(history'[out'.ip])].ok)
             => (/\ rateLimiter'[out'.ip]
                       = Append(PrunedWindow(out'.ip), now)
                 /\ Len(history'[out'.ip]) = Len(history[out'.ip]) + 1
                 /\ \A k \in DOMAIN rateLimiter \ {out'.ip} :
                       rateLimiter'[k] = rateLimiter[k])]_vars
    /\ [][started' = started => rateLimiter' = rateLimiter]_vars
    /\ [](\A k \in DOMAIN rateLimiter :
             Len(rateLimiter[k])
                = AdmittedIn(history[k],
                             history[k][Len(history[k])].time
                                - RATE_LIMIT_WINDOW,
                             history[k][Len(history[k])].time))

\* a GET /prices request for two identifiers, one of them fresh in the cache
\* after a GET /price request fetched it, has been answered 500: the window
\* of the client holds one timestamp for each of the two requests
C35_Witness ==
    /\ FailedBulkResponse
    /\ out.target = <<"bitcoin", "ethereum">>
    /\ "bitcoin" \in DOMAIN out.cause.cachedResults
    /\ writes["bitcoin"][1].route = "price"
    /\ Len(history[out.ip]) = 2
    /\ \A i \in 1..2 : history[out.ip][i].ok
    /\ Len(rateLimiter[out.ip]) = 2

----------------------------------------------------------------------------
(* The routes that are not rate limited.                                   *)

\* the window of client k is full at the current instant
AtLimit(k) == Len(PrunedWindow(k)) >= MAX_REQUESTS_PER_MINUTE

\* C36: a GET / or GET /health request is answered 200 whatever the windows
\* of the rate limiter hold, and the step leaves the cache, the windows and
\* the requests in flight as they were; the cache_size GET /health reports
\* is the size of the cache it left untouched.
C36_OpenRoutes ==
    /\ []((out.kind = "resp" /\ out.route \in {"root", "health"})
             => out.status = 200)
    /\ [][(out'.kind = "resp" /\ out'.route \in {"root", "health"})
             => (/\ cache' = cache
                 /\ rateLimiter' = rateLimiter
                 /\ history' = history
                 /\ writes' = writes
                 /\ reqs' = reqs)]_vars
    /\ [](HealthResponse => out.body.cache_size = Cardinality(DOMAIN cache))
    /\ []((out.kind = "resp" /\ out.route = "root") => out.body = RootBody)

\* GET / answered 200 for a client whose window is full, the entry it
\* fetched before still in the cache
C36_Witness ==
    /\ out.kind = "resp"
    /\ out.route = "root"
    /\ out.status = 200
    /\ AtLimit(out.ip)
    /\ Len(rateLimiter[out.ip]) = MAX_REQUESTS_PER_MINUTE
    /\ DOMAIN cache = {"bitcoin"}

----------------------------------------------------------------------------
(* Fallback records in the cache.                                          *)

\* the record a bulk fetch builds for id when its metadata call failed
FallbackRecord(id, usd) ==
    [name |-> id, symbol |-> ToUpperCase(id), price |-> usd]

\* the entry of id is fresh and holds a fallback record
FreshFallback(id) ==
    /\ EntryFresh(id)
    /\ cache[id].data = FallbackRecord(id, cache[id].data.price)

\* C37: when a GET /prices request is answered after the metadata call of
\* an identifier with a price failed, the cache holds the fallback record
\* of that identifier with the instant of the answer; while that entry is
\* fresh, a GET /price request for the identifier is answered with it
\* without an outbound call, and a GET /prices request that names the
\* identifier does not ask the provider for it and answers with it.
C37_FallbackCached ==
    /\ [][FetchedBulkResponse'
             => \A i \in DOMAIN out'.cause.missingIds :
                   LET id == out'.cause.missingIds[i]
                   IN  (/\ id \in DOMAIN out'.cause.priceData
                        /\ ~out'.cause.outcomes[i].ok)
                          => /\ id \in DOMAIN cache'
                             /\ cache'[id]
                                  = [data |-> FallbackRecord(id,
                                        out'.cause.priceData[id].usd),
                                     timestamp |-> now]]_vars
    /\ [][\A id \in Ids :
             (AdmittedArrival /\ FreshFallback(id))
                => /\ (out'.route = "price" /\ out'.target = id)
                         => /\ out'.kind = "resp"
                            /\ out'.status = 200
                            /\ out'.body = cache[id].data
                            /\ out'.priceCalls = 0
                            /\ reqs' = reqs
                   /\ (out'.route = "prices" /\ id \in IdSet(out'.target))
                         => /\ out'.kind = "resp"
                                 => /\ out'.status = 200
                                    /\ out'.body[id] = cache[id].data
                                    /\ out'.priceCalls = 0
                            /\ out'.kind = "call"
                                 => /\ id \notin IdSet(out'.ids)
                                    /\ reqs'[Len(reqs')].cachedResults[id]
                                          = cache[id].data]_vars
    /\ [](FetchedBulkResponse
             => \A id \in DOMAIN out.cause.cachedResults :
                   id \notin IdSet(out.cause.missingIds)
                      => out.body[id] = out.cause.cachedResults[id])

\* a GET /price request answered from the cache with the fallback record a
\* bulk fetch wrote one millisecond less than CACHE_DURATION before
C37_Witness ==
    /\ PriceSuccess
    /\ out.priceCalls = 0
    /\ out.body = FallbackRecord("bitcoin", 1)
    /\ out.seen > 0
    /\ writes[out.target][out.seen].route = "prices"
    /\ out.startedAt - writes[out.target][out.seen].time = CACHE_DURATION - 1

----------------------------------------------------------------------------
(* The store of the price ticker (interactivity.js): state.prices,         *)
(* state.loading and state.errors are objects keyed by the coin, a key     *)
(* being absent until it is first assigned; null is << >> and a value v    *)
(* that may be null is <<v>>.  The lists of coins hold trimmed names.      *)

\* waitForGlobals looks for window.cryptoTicker at most this many times
maxAttempts == 50

\* the pause of waitForGlobals between two looks
POLL_DELAY == 100

\* the period of the auto-update interval
UPDATE_INTERVAL == 60000

\* the fetchCoinPrice calls of a behaviour
MaxFetches == 3

Coins == Ids

\* the lists of coins of the tickers of the page
TickerLists == {<<"bitcoin">>, <<"bitcoin", "ethereum">>}

\* the contexts of the tickers: a list of coins, if any, and autoUpdate
Contexts ==
    [coins : {<< >>} \cup {<<l>> : l \in TickerLists}, autoUpdate : BOOLEAN]

\* the instants at which the tickers that update themselves are initialised
TickerInstants == {0, 100, 60000}

\* the instant at which the other tickers are initialised and visitors click
FetchInstants == {0}

\* the instants at which the script of the page may define the globals
LocalizeInstants == {0, 4900}

\* the prices the price API quotes
TickerPrices == {100}

\* the statuses the ajax endpoint answers with when it fails
HttpErrors == {500}

\* what a fetch of the ajax endpoint comes to: the promise rejects, the
\* status is not ok, the body is not JSON, or the body is {success, data},
\* data being the record of the coin on success and a text, which may be
\* empty, on failure
FetchOutcomes ==
    {[kind |-> "reject", message |-> "Failed to fetch"]}
    \cup {[kind |-> "http", status |-> n] : n \in HttpErrors}
    \cup {[kind |-> "text", message |-> "Unexpected token < in JSON"]}
    \cup {[kind |-> "json", success |-> TRUE, data |-> [usd |-> p]] :
              p \in TickerPrices}
    \cup {[kind |-> "json", success |-> FALSE, data |-> [text |-> d]] :
              d \in {"", "Rate limit exceeded"}}

\* the outcomes of the fetches of the tickers that update themselves
IntervalOutcomes ==
    {o \in FetchOutcomes : o.kind = "http" \/ (o.kind = "json" /\ o.success)}

\* the contexts of the tickers that do not update themselves
ManualContexts == {context \in Contexts : ~context.autoUpdate}

\* the contexts of the tickers of one coin, and of those without a list
IntervalContexts ==
    {context \in Contexts :
        context.coins # << >> => Len(context.coins[1]) = 1}

\* the places of the fetchCoinPrice calls in flight
FetchSlots == 1..MaxFetches

\* 'HTTP error! status: ' + response.status
HttpMessage(status) ==
    CASE status = 500 -> "HTTP error! status: 500"
      [] OTHER -> "HTTP error! status"

\* obj[key] = value
assign(obj, key, value) ==
    [k \in DOMAIN obj \cup {key} |-> IF k = key THEN value ELSE obj[k]]

\* the coins of a list
CoinsOf(coins) == {coins[i] : i \in DOMAIN coins}

\* the forEach of updatePrices: every coin of the list is loading and
\* has no error
setLoading(st, coins) ==
    [st EXCEPT
       !.loading = [k \in DOMAIN st.loading \cup CoinsOf(coins) |->
                       IF k \in CoinsOf(coins) THEN TRUE ELSE st.loading[k]],
       !.errors = [k \in DOMAIN st.errors \cup CoinsOf(coins) |->
                      IF k \in CoinsOf(coins) THEN << >> ELSE st.errors[k]]]

\* fetchCoinPrice(coin) of the updatePrices call id, up to where it is
\* suspended: waitForGlobals has looked once, and either the fetch is out
\* or the first pause has begun
startFetch(coin, id) ==
    [coin |-> coin, update |-> id,
     pc |-> IF cryptoTicker THEN "fetch" ELSE "wait",
     attempts |-> IF cryptoTicker THEN 0 ELSE 1,
     due |-> IF cryptoTicker THEN 0 ELSE now + POLL_DELAY]

\* the try block of fetchCoinPrice after the fetch has settled: what it
\* stores, or the message of the error it throws
fetchResult(outcome) ==
    CASE outcome.kind = "reject" ->
           [ok |-> FALSE, message |-> outcome.message]
      [] outcome.kind = "http" ->
           [ok |-> FALSE, message |-> HttpMessage(outcome.status)]
      [] outcome.kind = "text" ->
           [ok |-> FALSE, message |-> outcome.message]
      [] outcome.kind = "json" /\ outcome.success ->
           [ok |-> TRUE, data |-> outcome.data]
      [] outcome.kind = "json" /\ ~outcome.success ->
           [ok |-> FALSE,
            message |-> IF outcome.data.text = "" THEN "Unknown error"
                        ELSE outcome.data.text]

\* the error of waitForGlobals
GlobalsError ==
    [ok |-> FALSE,
     message |->
        "Global variables (cryptoTicker) are not available after waiting"]

\* fetchCoinPrice(coin) with a catch block that stores the message only
storeResult_keepLoading(st, coin, r) ==
    IF r.ok
    THEN [st EXCEPT !.prices = assign(@, coin, r.data),
                    !.loading = assign(@, coin, FALSE),
                    !.errors = assign(@, coin, << >>)]
    ELSE [st EXCEPT !.errors = assign(@, coin, <<r.message>>)]

\* the end of fetchCoinPrice(coin): the data is stored, or the catch block
\* stores the message
storeResult(st, coin, r) ==
    IF r.ok
    THEN [st EXCEPT !.prices = assign(@, coin, r.data),
                    !.loading = assign(@, coin, FALSE),
                    !.errors = assign(@, coin, << >>)]
    ELSE [st EXCEPT !.loading = assign(@, coin, FALSE),
                    !.errors = assign(@, coin, <<r.message>>)]

\* the sequence q without its element i
Without(q, i) == [j \in 1..(Len(q) - 1) |-> IF j < i THEN q[j] ELSE q[j + 1]]

\* the updatePrices call id among those in flight
UpdateOf(id) == CHOOSE u \in DOMAIN updating : updating[u].id = id

\* initTicker that starts an interval for every ticker that asks for one
startsInterval_unguarded(st, u) ==
    u.caller = "initTicker" /\ u.autoUpdate

\* initTicker after its await: it starts the interval if the ticker asks
\* for one and the store has none
startsInterval(st, u) ==
    u.caller = "initTicker" /\ u.autoUpdate /\ st.updateInterval = << >>

\* the call fetching[i] ends with the result r; if it was the last call
\* its updatePrices waits for, Promise.all resolves, updatePrices sets
\* lastUpdated and returns, and the initTicker that awaits it goes on
settle(i, r) ==
    LET f == fetching[i]
        rest == Without(fetching, i)
        u == updating[UpdateOf(f.update)]
        last == \A j \in DOMAIN rest : rest[j].update # f.update
        stored == storeResult(state, f.coin, r)
        updated == [stored EXCEPT !.lastUpdated = <<now>>]
    IN  /\ fetching' = rest
        /\ IF ~last
           THEN /\ state' = stored
                /\ UNCHANGED <<updating, intervals>>
           ELSE /\ updating' = Without(updating, UpdateOf(f.update))
                /\ IF startsInterval(updated, u)
                   THEN /\ state' = [updated EXCEPT
                                        !.updateInterval = <<u.id>>]
                        /\ intervals' =
                              assign(intervals, u.id,
                                     [coins |-> u.coins,
                                      due |-> now + UPDATE_INTERVAL])
                   ELSE /\ state' = updated
                        /\ UNCHANGED intervals
        /\ out' = [kind |-> "settled", call |-> f, result |-> r,
                   updated |-> IF last THEN <<u>> ELSE << >>,
                   interval |-> IF last /\ startsInterval(updated, u)
                                THEN <<u.id>> ELSE << >>]

\* updatePrices(coins) up to its await: the coins are flagged and one
\* fetchCoinPrice call per coin is under way
updatePrices(coins, caller, autoUpdate) ==
    /\ started + Len(coins) <= MaxFetches
    /\ started' = started + Len(coins)
    /\ state' = setLoading(state, coins)
    /\ fetching' = fetching \o [i \in DOMAIN coins |->
                                   startFetch(coins[i], started + 1)]
    /\ updating' = Append(updating,
                          [id |-> started + 1, coins |-> coins,
                           caller |-> caller, autoUpdate |-> autoUpdate])
    /\ out' = [kind |-> "update", caller |-> caller, coins |-> coins,
               id |-> started + 1]

\* a ticker of the page is initialised
initTicker(context) ==
    /\ IF context.coins = << >>
       THEN /\ out' = [kind |-> "invalid", caller |-> "initTicker"]
            /\ UNCHANGED <<started, state, fetching, updating>>
       ELSE updatePrices(context.coins[1], "initTicker", context.autoUpdate)
    /\ UNCHANGED <<now, cryptoTicker, intervals>>
    /\ UNCHANGED apiVars

\* the visitor asks a ticker for fresh prices
forceUpdate(context) ==
    /\ IF context.coins = << >>
       THEN /\ out' = [kind |-> "invalid", caller |-> "forceUpdate"]
            /\ UNCHANGED <<started, state, fetching, updating>>
       ELSE updatePrices(context.coins[1], "forceUpdate", FALSE)
    /\ UNCHANGED <<now, cryptoTicker, intervals>>
    /\ UNCHANGED apiVars

\* the instants at which the timers of the page expire: the pauses of
\* waitForGlobals and, while fetchCoinPrice calls are left, the intervals
TimersDue ==
    {fetching[i].due : i \in {j \in DOMAIN fetching : fetching[j].pc = "wait"}}
    \cup {intervals[id].due :
             id \in {j \in DOMAIN intervals :
                        started + Len(intervals[j].coins) <= MaxFetches}}

\* the timer that expires at t is the next to fire
FiresAt(t) == t <= now /\ \A d \in TimersDue : t <= d

\* Date.now() moves on to the expiry of the next timer
TickerTick ==
    /\ TimersDue # {}
    /\ \A d \in TimersDue : d > now
    /\ \E t \in TimersDue : (\A d \in TimersDue : t <= d) /\ now' = t
    /\ out' = [kind |-> "tick"]
    /\ UNCHANGED <<started, cryptoTicker>>
    /\ UNCHANGED <<state, intervals, fetching, updating>>
    /\ UNCHANGED apiVars

\* the pause of waitForGlobals in the call fetching[i] is over: it gives
\* up after maxAttempts looks, and else looks again; when the globals are
\* there the form is sent, and else the next pause begins
Poll(i) ==
    /\ i \in DOMAIN fetching
    /\ fetching[i].pc = "wait"
    /\ FiresAt(fetching[i].due)
    /\ \A j \in 1..(i - 1) :
          ~(fetching[j].pc = "wait" /\ fetching[j].due = fetching[i].due)
    /\ IF fetching[i].attempts >= maxAttempts
       THEN settle(i, GlobalsError)
       ELSE /\ fetching' =
                 [fetching EXCEPT
                    ![i] = IF cryptoTicker
                           THEN [@ EXCEPT !.pc = "fetch", !.due = 0]
                           ELSE [@ EXCEPT !.attempts = @ + 1,
                                          !.due = now + POLL_DELAY]]
            /\ out' = [kind |-> "poll", coin |-> fetching[i].coin,
                       attempts |-> fetching[i].attempts]
            /\ UNCHANGED <<state, updating, intervals>>
    /\ UNCHANGED <<now, started, cryptoTicker>>
    /\ UNCHANGED apiVars

\* the fetch of the call fetching[i] settles
FetchResponds(i, outcome) ==
    /\ i \in DOMAIN fetching
    /\ fetching[i].pc = "fetch"
    /\ settle(i, fetchResult(outcome))
    /\ UNCHANGED <<now, started, cryptoTicker>>
    /\ UNCHANGED apiVars

\* the script of the page defines window.cryptoTicker
Localize ==
    /\ ~cryptoTicker
    /\ cryptoTicker' = TRUE
    /\ out' = [kind |-> "globals"]
    /\ UNCHANGED <<now, started, state, intervals, fetching, updating>>
    /\ UNCHANGED apiVars

\* the interval id fires: its callback calls updatePrices
IntervalFires(id) ==
    /\ id \in DOMAIN intervals
    /\ FiresAt(intervals[id].due)
    /\ updatePrices(intervals[id].coins, "interval", FALSE)
    /\ intervals' = [intervals EXCEPT ![id].due = @ + UPDATE_INTERVAL]
    /\ UNCHANGED <<now, cryptoTicker>>
    /\ UNCHANGED apiVars

\* clearInterval(id)
clearInterval(timers, id) == [k \in DOMAIN timers \ {id} |-> timers[k]]

\* the cleanup action
cleanup ==
    /\ IF state.updateInterval # << >>
       THEN /\ intervals' = clearInterval(intervals, state.updateInterval[1])
            /\ state' = [state EXCEPT !.updateInterval = << >>]
       ELSE UNCHANGED <<state, intervals>>
    /\ out' = [kind |-> "cleanup"]
    /\ UNCHANGED <<now, started, cryptoTicker, fetching, updating>>
    /\ UNCHANGED apiVars

\* the tickers of a page without auto-update: they are initialised, the
\* visitor asks for fresh prices, the globals arrive late or never, and
\* the ajax endpoint answers in every way
NextFetch ==
    \/ \E context \in ManualContexts :
          now \in FetchInstants /\ initTicker(context)
    \/ \E context \in ManualContexts :
          now \in FetchInstants /\ forceUpdate(context)
    \/ \E i \in FetchSlots : Poll(i)
    \/ \E i \in FetchSlots, outcome \in FetchOutcomes :
          FetchResponds(i, outcome)
    \/ now \in LocalizeInstants /\ Localize
    \/ TickerTick

SpecFetch == Init /\ [][NextFetch]_vars

\* the tickers of a page, with and without auto-update: they are
\* initialised and cleaned up, the intervals fire, the globals arrive late
\* or never, and the ajax endpoint answers or fails
NextTicker ==
    \/ \E context \in IntervalContexts :
          now \in TickerInstants /\ initTicker(context)
    \/ \E i \in FetchSlots : Poll(i)
    \/ \E i \in FetchSlots, outcome \in IntervalOutcomes :
          FetchResponds(i, outcome)
    \/ \E id \in 1..MaxFetches : IntervalFires(id)
    \/ now \in LocalizeInstants /\ Localize
    \/ cleanup
    \/ TickerTick

SpecTicker == Init /\ [][NextTicker]_vars

----------------------------------------------------------------------------
(* C38: the end of fetchCoinPrice and of updatePrices.                     *)

\* a fetchCoinPrice call ends in this step
FetchEnds == Len(fetching') < Len(fetching)

\* the coin c is flagged as loading in the store st
Loading(st, c) == c \in DOMAIN st.loading /\ st.loading[c]

\* some fetchCoinPrice call for the coin c is in flight in q
InFlight(q, c) == \E j \in DOMAIN q : q[j].coin = c

\* the call that ends leaves loading[coin] false; it leaves errors[coin]
\* null and prices[coin] set to the data exactly when the endpoint answered
\* success, and else the message in errors[coin] and prices as they were;
\* a call that never saw the globals ends after maxAttempts looks
EndOfFetch ==
    LET f == out'.call
        r == out'.result
    IN  /\ out'.kind = "settled"
        /\ f.coin \in DOMAIN state'.loading
        /\ state'.loading[f.coin] = FALSE
        /\ f.coin \in DOMAIN state'.errors
        /\ r.ok <=> f.pc = "fetch" /\ \E o \in FetchOutcomes :
                       o.kind = "json" /\ o.success /\ r = fetchResult(o)
        /\ r.ok => /\ state'.errors[f.coin] = << >>
                   /\ f.coin \in DOMAIN state'.prices
                   /\ state'.prices[f.coin] = r.data
        /\ ~r.ok => /\ state'.errors[f.coin] = <<r.message>>
                    /\ r.message # ""
                    /\ state'.prices = state.prices
        /\ f.pc = "wait" => f.attempts = maxAttempts /\ r = GlobalsError

\* C38 as stated: every fetchCoinPrice(coin) call ends with loading[coin]
\* false, with errors[coin] null and prices[coin] updated exactly when the
\* fetch succeeded and else with the message in errors[coin] and prices[coin]
\* unchanged, also when waitForGlobals gives up after 50 looks; and once an
\* updatePrices(coins) call has completed no coin of its list is loading.
C38_Original ==
    [][FetchEnds =>
         /\ EndOfFetch
         /\ out'.updated # << >> =>
               \A c \in CoinsOf(out'.updated[1].coins) : ~Loading(state', c)]_vars

\* C38, amended: every fetchCoinPrice(coin) call ends with loading[coin]
\* false, with errors[coin] null and prices[coin] updated exactly when the
\* fetch succeeded and else with the message in errors[coin] and prices[coin]
\* unchanged, also when waitForGlobals gives up after 50 looks; and once an
\* updatePrices(coins) call has completed, a coin of its list is loading
\* only if a later updatePrices call has flagged it again and that call's
\* fetch of the coin is still in flight.  No call looks for the globals
\* more than maxAttempts times.
C38_FetchEnds ==
    /\ [][FetchEnds =>
            /\ EndOfFetch
            /\ out'.updated # << >> =>
                  \A c \in CoinsOf(out'.updated[1].coins) :
                     Loading(state', c) =>
                        \E j \in DOMAIN fetching' :
                           /\ fetching'[j].coin = c
                           /\ fetching'[j].update > out'.updated[1].id]_vars
    /\ [](\A i \in DOMAIN fetching : fetching[i].attempts <= maxAttempts)

\* witness: an updatePrices call for two coins has just completed with a
\* failure of its last fetch, while one of its coins is loading again for
\* a later call
C38_Witness ==
    /\ out.kind = "settled"
    /\ ~out.result.ok
    /\ out.updated # << >>
    /\ Len(out.updated[1].coins) = 2
    /\ \E c \in CoinsOf(out.updated[1].coins) :
          Loading(state, c) /\ InFlight(fetching, c)
    /\ ~Loading(state, out.call.coin)

\* witness: a call has given up after maxAttempts looks for the globals
C38_GaveUp ==
    /\ out.kind = "settled"
    /\ out.call.pc = "wait"
    /\ out.call.attempts = maxAttempts
    /\ out.result = GlobalsError
    /\ state.errors[out.call.coin] = <<GlobalsError.message>>

----------------------------------------------------------------------------
(* C39: the auto-update interval of the store.                             *)

\* the intervals of the page that are active
ActiveIntervals == DOMAIN intervals

\* C39: at most one auto-update interval is active at any time, and it is
\* the one state.updateInterval names; an initTicker call starts an
\* interval only if state.updateInterval is unset when it resumes, also
\* when several initTicker calls are in flight; and cleanup clears the
\* interval and resets state.updateInterval to null, after which an
\* initTicker call that resumes starts a new one.
C39_OneInterval ==
    /\ [](/\ Cardinality(ActiveIntervals) <= 1
          /\ state.updateInterval = << >> <=> ActiveIntervals = {}
          /\ state.updateInterval # << >> =>
                ActiveIntervals = {state.updateInterval[1]})
    /\ [][/\ ActiveIntervals' \ ActiveIntervals # {} =>
                /\ state.updateInterval = << >>
                /\ out'.kind = "settled"
                /\ out'.updated # << >>
                /\ out'.updated[1].caller = "initTicker"
                /\ out'.updated[1].autoUpdate
          /\ out'.kind = "cleanup" =>
                /\ ActiveIntervals' = {}
                /\ state'.updateInterval = << >>
          /\ (/\ out'.kind = "settled"
              /\ out'.updated # << >>
              /\ out'.updated[1].caller = "initTicker"
              /\ out'.updated[1].autoUpdate
              /\ state.updateInterval = << >>) =>
                ActiveIntervals' = {out'.updated[1].id}]_vars

\* witness: of two initTicker calls with autoUpdate that were in flight
\* together, the one made first resumes last and starts no interval,
\* because the other has started one
C39_Witness ==
    /\ out.kind = "settled"
    /\ out.updated # << >>
    /\ out.updated[1].caller = "initTicker"
    /\ out.updated[1].autoUpdate
    /\ out.interval = << >>
    /\ state.updateInterval # << >>
    /\ out.updated[1].id < state.updateInterval[1]
    /\ ActiveIntervals = {state.updateInterval[1]}

\* witness: the interval that is active was started by the last
\* initTicker call, after cleanup had cleared an earlier interval whose
\* expiry the clock has reached
C39_Restarted ==
    /\ state.updateInterval # << >>
    /\ ActiveIntervals = {state.updateInterval[1]}
    /\ state.updateInterval[1] = MaxFetches
    /\ now >= UPDATE_INTERVAL

====
